---- MODULE Spec2Model ----
(***************************************************************************)
(* Model of the backtest state machine of liquicalc (src/liquicalc.ts,     *)
(* lines 427-939) together with the ladder simulator it calls              *)
(* (libs/libliqui, src/unnamed/part_003) and the number helpers            *)
(* (libs/libnumber, src/unnamed/part_002).                                 *)
(*                                                                         *)
(* Numbers.  A JavaScript number is modelled as an extended rational       *)
(* <<n, d>>: d > 0 and gcd(n, d) = 1 for a finite value, <<1, 0>> and      *)
(* <<-1, 0>> for +Infinity and -Infinity, <<0, 0>> for NaN.  Arithmetic is *)
(* exact; the rounding error of IEEE doubles and the sign of zero are not  *)
(* modelled.                                                               *)
(***************************************************************************)
EXTENDS Integers, Sequences, FiniteSets, TLC

(***************************************************************************)
(* Extended rational arithmetic with the comparison rules of JavaScript.   *)
(***************************************************************************)
\* F applied to the value of x, with x computed once.
Let(x, F(_)) == CHOOSE r \in {F(v) : v \in {x}} : TRUE

Abs(n) == IF n < 0 THEN -n ELSE n

Min(a, b) == IF a < b THEN a ELSE b

Max(a, b) == IF a < b THEN b ELSE a

Sign(n) == IF n < 0 THEN -1 ELSE IF n > 0 THEN 1 ELSE 0

RECURSIVE GCD(_, _)
GCD(a, b) == IF b = 0 THEN a ELSE GCD(b, a % b)

NaN == <<0, 0>>

Infinity == <<1, 0>>

Zero == <<0, 1>>

Num(n) == <<n, 1>>

Frac(n, d) ==
  LET g == GCD(Abs(n), d) IN <<n \div g, d \div g>>

IsNaN(a) == a = NaN

IsFinite(a) == a[2] # 0

Neg(a) == <<-a[1], a[2]>>

\* Math.abs
AbsOf(a) == <<Abs(a[1]), a[2]>>

Add(a, b) ==
  IF IsNaN(a) \/ IsNaN(b) THEN NaN
  ELSE IF a[2] = 0 /\ b[2] = 0 THEN (IF a[1] = b[1] THEN a ELSE NaN)
  ELSE IF a[2] = 0 THEN a
  ELSE IF b[2] = 0 THEN b
  ELSE LET g == GCD(a[2], b[2])
       IN Frac(a[1] * (b[2] \div g) + b[1] * (a[2] \div g), (a[2] \div g) * b[2])

Sub(a, b) == Add(a, Neg(b))

Mul(a, b) ==
  IF IsNaN(a) \/ IsNaN(b) THEN NaN
  ELSE IF a[2] = 0 \/ b[2] = 0
    THEN (IF a[1] = 0 \/ b[1] = 0 THEN NaN ELSE <<Sign(a[1]) * Sign(b[1]), 0>>)
  ELSE LET g1 == GCD(Abs(a[1]), b[2])
           g2 == GCD(Abs(b[1]), a[2])
       IN <<(a[1] \div g1) * (b[1] \div g2), (a[2] \div g2) * (b[2] \div g1)>>

Inv(a) ==
  IF IsNaN(a) THEN NaN
  ELSE IF a[2] = 0 THEN Zero
  ELSE IF a[1] = 0 THEN Infinity
  ELSE <<Sign(a[1]) * a[2], Abs(a[1])>>

Div(a, b) == Mul(a, Inv(b))

\* a <= b; FALSE when either side is NaN.  Finite values are compared by
\* integer part first, so that the cross product stays small.
Le(a, b) ==
  /\ ~IsNaN(a)
  /\ ~IsNaN(b)
  /\ IF a[2] = 0 \/ b[2] = 0
       THEN (IF a[2] = 0 /\ b[2] = 0 THEN a[1] <= b[1]
             ELSE IF a[2] = 0 THEN a[1] < 0 ELSE b[1] > 0)
       ELSE LET ia == a[1] \div a[2]
                ib == b[1] \div b[2]
            IN IF ia # ib THEN ia < ib
               ELSE (a[1] % a[2]) * b[2] <= (b[1] % b[2]) * a[2]

Lt(a, b) == Le(a, b) /\ a # b

Ge(a, b) == Le(b, a)

Gt(a, b) == Lt(b, a)

IsInteger(a) == a[2] = 1

Floor(a) == IF IsFinite(a) THEN Num(a[1] \div a[2]) ELSE a

Ceil(a) == IF IsFinite(a) THEN Num(-((-a[1]) \div a[2])) ELSE a

RECURSIVE Pow(_, _)
Pow(a, k) == IF k = 0 THEN Num(1) ELSE Mul(a, Pow(a, k - 1))

(***************************************************************************)
(* libs/libnumber                                                          *)
(***************************************************************************)
\* roundWithFunction(n, f, roundFn); roundFn is "ceil" or "floor".  A number
\* whose decimal form has no "." (an integer) is returned unchanged.
\* A rounding that leaves its argument as it is
roundNothing(n, f, roundFn) == n

roundWithFunction(n, f, roundFn) ==
  IF ~IsFinite(n) THEN n
  ELSE IF IsInteger(n) THEN n
  ELSE LET multiplier == Pow(Num(10), Abs(f))
           scaled == Mul(n, multiplier)
       IN Div(IF roundFn = "ceil" THEN Ceil(scaled) ELSE Floor(scaled), multiplier)

\* roundUp calling Math.floor
roundUpWithFloor(n, f) == roundWithFunction(n, f, "floor")

roundUp(n, f) == roundWithFunction(n, f, "ceil")

\* roundDown calling Math.ceil
roundDownWithCeil(n, f) == roundWithFunction(n, f, "ceil")

roundDown(n, f) == roundWithFunction(n, f, "floor")

addPercentage(n, p) ==
  IF ~IsFinite(n) \/ ~IsFinite(p) THEN NaN
  ELSE Add(n, Div(Mul(n, p), Num(100)))

\* A subtraction of p hundredths instead of p percent of n
subtractHundredths(n, p) ==
  IF ~IsFinite(n) \/ ~IsFinite(p) THEN NaN
  ELSE Sub(n, Div(p, Num(100)))

subtractPercentage(n, p) ==
  IF ~IsFinite(n) \/ ~IsFinite(p) THEN NaN
  ELSE Sub(n, Div(Mul(n, p), Num(100)))

(***************************************************************************)
(* libs/libliqui: the ladder simulator                                     *)
(***************************************************************************)
\* The iteration ceiling of the rung loop.
MaxRungs == 50

\* Array.prototype.find over the symbol's riskBrackets: the first tier with
\* floor <= notional < cap, or <<>> (undefined) when there is none.
RECURSIVE FindRiskBracket(_, _, _)
FindRiskBracket(riskBrackets, positionNotionalValue, k) ==
  IF k > Len(riskBrackets) THEN <<>>
  ELSE IF /\ Ge(positionNotionalValue, riskBrackets[k].bracketNotionalFloor)
          /\ Lt(positionNotionalValue, riskBrackets[k].bracketNotionalCap)
    THEN <<riskBrackets[k]>>
  ELSE FindRiskBracket(riskBrackets, positionNotionalValue, k + 1)

\* JSON.parse(file).find(bracket => bracket.symbol === tradingPair)
RECURSIVE FindSymbol(_, _, _)
FindSymbol(file, tradingPair, k) ==
  IF k > Len(file) THEN <<>>
  ELSE IF file[k].symbol = tradingPair THEN <<file[k]>>
  ELSE FindSymbol(file, tradingPair, k + 1)

\* The locals of calculateLiquidationPrices before the loop.
InitialLocals ==
  [marketPrice |-> Zero, marginToAdd |-> Zero, assetSizeToAdd |-> Zero,
   margin |-> Zero, positionAssetSize |-> Zero, averageEntryPrice |-> Zero,
   totalActualInvesment |-> Zero, totalLeveragedInvestment |-> Zero,
   previousMarketPrice |-> Zero, liquidationPrice |-> Num(-1),
   totalDeviation |-> Zero]

\* The first half of one loop iteration: the new price, margin and size.
AdvanceRung(config, v, i) ==
  IF i = 0
    THEN
      Let(Mul(config.leverage, config.initialMargin), LAMBDA totalLeveragedInvestment :
      Let(Div(totalLeveragedInvestment, config.initialEntryPrice), LAMBDA assetSizeToAdd :
        [v EXCEPT
           !.marketPrice = config.initialEntryPrice,
           !.marginToAdd = config.initialMargin,
           !.margin = config.initialMargin,
           !.totalActualInvesment = config.initialMargin,
           !.totalLeveragedInvestment = totalLeveragedInvestment,
           !.assetSizeToAdd = assetSizeToAdd,
           !.positionAssetSize = assetSizeToAdd,
           !.averageEntryPrice = config.initialEntryPrice]))
    ELSE
      Let(Add(v.totalDeviation,
              Mul(config.priceDeviationPercent,
                  IF config.priceDeviationMultiplier # Num(1)
                    THEN Pow(config.priceDeviationMultiplier, i - 1)
                    ELSE Num(1))), LAMBDA totalDeviation :
      Let(IF config.mode = "LONG"
            THEN subtractPercentage(config.initialEntryPrice, totalDeviation)
            ELSE addPercentage(config.initialEntryPrice, totalDeviation), LAMBDA marketPrice :
      Let(Mul(IF config.mode = "LONG"
                THEN Sub(v.marketPrice, marketPrice)
                ELSE Sub(marketPrice, v.marketPrice),
              v.positionAssetSize), LAMBDA loss :
      Let(Mul(v.marginToAdd, config.orderSizeMultiplier), LAMBDA marginToAdd :
      Let(Add(v.totalLeveragedInvestment, Mul(config.leverage, marginToAdd)),
          LAMBDA totalLeveragedInvestment :
      Let(Div(Mul(config.leverage, marginToAdd), marketPrice), LAMBDA assetSizeToAdd :
      Let(Add(v.positionAssetSize, assetSizeToAdd), LAMBDA positionAssetSize :
        [v EXCEPT
           !.previousMarketPrice = v.marketPrice,
           !.totalDeviation = totalDeviation,
           !.marketPrice = marketPrice,
           !.marginToAdd = marginToAdd,
           !.margin = Add(Sub(v.margin, loss), marginToAdd),
           !.totalActualInvesment = Add(v.totalActualInvesment, marginToAdd),
           !.totalLeveragedInvestment = totalLeveragedInvestment,
           !.assetSizeToAdd = assetSizeToAdd,
           !.positionAssetSize = positionAssetSize,
           !.averageEntryPrice = Div(totalLeveragedInvestment, positionAssetSize)])))))))

\* The break on a crossed liquidation price (of the previous rung).
LiquidationCrossed(config, v) ==
  /\ Gt(v.liquidationPrice, Zero)
  /\ \/ config.mode = "LONG" /\ Le(v.marketPrice, v.liquidationPrice)
     \/ config.mode = "SHORT" /\ Ge(v.marketPrice, v.liquidationPrice)

\* The liquidation price of the rung just advanced to, in tier riskBracket.
LiquidationPriceOf(config, v, riskBracket) ==
  Let(Div(Sub(v.margin,
              Sub(Mul(Mul(v.marketPrice, v.positionAssetSize),
                      riskBracket.bracketMaintenanceMarginRate),
                  riskBracket.cumFastMaintenanceAmount)),
          v.positionAssetSize), LAMBDA distance :
    IF config.mode = "LONG"
      THEN Sub(v.averageEntryPrice, distance)
      ELSE Add(v.averageEntryPrice, distance))

PositionSnapshot(config, v) ==
  [entryPrice |-> v.marketPrice,
   orderSizeQuote |-> v.marginToAdd,
   orderSizeBase |-> v.assetSizeToAdd,
   avgEntryPrice |-> v.averageEntryPrice,
   liquidationPrice |-> v.liquidationPrice,
   totalInvesment |-> v.totalActualInvesment,
   divergence |->
     Mul(Div(AbsOf(Sub(v.marketPrice, v.averageEntryPrice)), v.marketPrice), Num(100)),
   difference |->
     Mul(Div(AbsOf(Sub(config.initialEntryPrice, v.marketPrice)),
             config.initialEntryPrice), Num(100))]

\* One iteration of the for loop, on the loop state [v, rungs, exit]: v are
\* the locals, rungs is calculatingResults and exit is "" until a break, then
\* "price" for the break on marketPrice <= 0, "liquidated" for the break on a
\* crossed liquidation price and "nobracket" for the console.error and break
\* when no tier holds the notional value.  After a break nothing runs.
RungIteration(config, riskBrackets, loop, i) ==
  IF loop.exit # "" THEN loop
  ELSE
    Let(AdvanceRung(config, loop.v, i), LAMBDA w :
      IF Le(w.marketPrice, Zero) THEN [loop EXCEPT !.exit = "price"]
      ELSE IF LiquidationCrossed(config, w) THEN [loop EXCEPT !.exit = "liquidated"]
      ELSE
        Let(FindRiskBracket(riskBrackets, Mul(w.marketPrice, w.positionAssetSize), 1),
            LAMBDA found :
          IF found = <<>> THEN [loop EXCEPT !.exit = "nobracket"]
          ELSE
            Let([w EXCEPT !.liquidationPrice = LiquidationPriceOf(config, w, found[1])],
                LAMBDA x :
              [v |-> x,
               rungs |-> Append(loop.rungs, PositionSnapshot(config, x)),
               exit |-> ""])))

\* Iterations from..to of the for loop in order, the first half of the range
\* before the second.
RECURSIVE RungIterations(_, _, _, _, _)
RungIterations(config, riskBrackets, loop, from, to) ==
  IF from > to THEN loop
  ELSE IF from = to THEN RungIteration(config, riskBrackets, loop, from)
  ELSE
    Let(RungIterations(config, riskBrackets, loop, from, (from + to) \div 2),
        LAMBDA half :
      RungIterations(config, riskBrackets, half, (from + to) \div 2 + 1, to))

\* The for loop of calculateLiquidationPrices from iteration i on.  The
\* result is [exit, rungs]; exit is "ceiling" when the loop condition ended
\* the loop and the break that ended it otherwise.
RungLoop(config, riskBrackets, v, i, calculatingResults) ==
  Let(RungIterations(config, riskBrackets,
                     [v |-> v, rungs |-> calculatingResults, exit |-> ""],
                     i, MaxRungs - 1), LAMBDA loop :
    [exit |-> IF loop.exit = "" THEN "ceiling" ELSE loop.exit,
     rungs |-> loop.rungs])

\* The write to config.mode at the head of calculateLiquidationPrices
NormalizedMode(config) ==
  IF config.mode # "LONG" /\ config.mode # "SHORT"
    THEN [config EXCEPT !.mode = "LONG"] ELSE config

\* calculateLiquidationPrices(config) reading the stored bracket file `file`.
\* The result is [threw, rungs, exit]; threw is TRUE when the symbol has no
\* entry in the file (exit "nosymbol"), the only rejection of the promise.
calculateLiquidationPrices(config, file) ==
  Let(NormalizedMode(config), LAMBDA normalized :
  Let(FindSymbol(file, normalized.tradingPair, 1), LAMBDA symbolRiskBracketInfo :
    IF symbolRiskBracketInfo = <<>>
      THEN [threw |-> TRUE, rungs |-> <<>>, exit |-> "nosymbol"]
      ELSE
        Let(RungLoop(normalized, symbolRiskBracketInfo[1].riskBrackets,
                     InitialLocals, 0, <<>>), LAMBDA loop :
          [threw |-> FALSE, rungs |-> loop.rungs, exit |-> loop.exit])))

(***************************************************************************)
(* liquicalc.ts: the dual-side ladder builder                              *)
(***************************************************************************)
\* The builder without the slice
SliceNothing(positions, maxOrdersPerSide) == positions

\* positions.slice(0, maxOrdersPerSide)
Slice(positions, maxOrdersPerSide) ==
  SubSeq(positions, 1, Min(maxOrdersPerSide, Len(positions)))

\* The average entry price of the first rung in place of the last
FirstAvgEntryPrice(positions) ==
  IF Len(positions) = 0 THEN NaN ELSE positions[1].avgEntryPrice

\* positions[positions.length - 1]?.avgEntryPrice; undefined becomes NaN
\* inside addPercentage / subtractPercentage (Number.isFinite(undefined)).
LastAvgEntryPrice(positions) ==
  IF Len(positions) = 0 THEN NaN ELSE positions[Len(positions)].avgEntryPrice

LongWithTP(config, rungs) ==
  [i \in 1..Len(rungs) |->
     [entryPrice |-> rungs[i].entryPrice,
      avgEntryPrice |-> rungs[i].avgEntryPrice,
      liquidationPrice |-> rungs[i].liquidationPrice,
      orderSizeQuote |-> rungs[i].orderSizeQuote,
      orderSizeBase |-> rungs[i].orderSizeBase,
      totalInvesment |-> rungs[i].totalInvesment,
      divergence |-> rungs[i].divergence,
      difference |-> rungs[i].difference,
      index |-> -i,
      takeProfitPrice |-> addPercentage(rungs[i].avgEntryPrice, config.takeProfitPercent)]]

ShortWithTP(config, rungs) ==
  [i \in 1..Len(rungs) |->
     [entryPrice |-> rungs[i].entryPrice,
      avgEntryPrice |-> rungs[i].avgEntryPrice,
      liquidationPrice |-> rungs[i].liquidationPrice,
      orderSizeQuote |-> rungs[i].orderSizeQuote,
      orderSizeBase |-> rungs[i].orderSizeBase,
      totalInvesment |-> rungs[i].totalInvesment,
      divergence |-> rungs[i].divergence,
      difference |-> rungs[i].difference,
      index |-> i,
      takeProfitPrice |-> subtractPercentage(rungs[i].avgEntryPrice, config.takeProfitPercent)]]

\* The LiquidationPriceConfig the builder hands to the simulator for a side.
SideConfig(config, entryPrice, mode) ==
  [tradingPair |-> config.tradingPair,
   mode |-> mode,
   leverage |-> config.leverage,
   priceDeviationPercent |-> config.priceDeviationPercent,
   priceDeviationMultiplier |-> config.priceDeviationMultiplier,
   orderSizeMultiplier |-> config.orderSizeMultiplier,
   initialEntryPrice |-> entryPrice,
   initialMargin |-> config.initialMargin]

\* calculatePositionsBothSides({...liquiConfig, initialEntryPrice: entryPrice}).
\* The result is [threw, longPositions, shortPositions, longStopLossPrice,
\* shortStopLossPrice]; threw is TRUE when a simulator call rejected.
calculatePositionsBothSides(config, entryPrice, file) ==
  Let(calculateLiquidationPrices(SideConfig(config, entryPrice, "LONG"), file),
      LAMBDA long :
  Let(calculateLiquidationPrices(SideConfig(config, entryPrice, "SHORT"), file),
      LAMBDA short :
  Let(LongWithTP(config, Slice(long.rungs, config.maxOrdersPerSide)),
      LAMBDA longPositions :
  Let(ShortWithTP(config, Slice(short.rungs, config.maxOrdersPerSide)),
      LAMBDA shortPositions :
    [threw |-> long.threw \/ short.threw,
     longPositions |-> longPositions,
     shortPositions |-> shortPositions,
     longStopLossPrice |->
       subtractPercentage(LastAvgEntryPrice(longPositions), config.stopLossPercent),
     shortStopLossPrice |->
       addPercentage(LastAvgEntryPrice(shortPositions), config.stopLossPercent)]))))

(***************************************************************************)
(* Inputs of one backtest run                                              *)
(***************************************************************************)
\* Largest number of candles in the input and largest maxOrdersPerSide.
MaxKlines == 2

MaxOrders == 3

\* An OHLC field of a kline is a decimal string.  A well-formed field is
\* modelled by the integer it spells (the klines come from the exchange at
\* the symbol's price precision, liquicalc.ts:837-860); Malformed stands for
\* a missing or non-numeric field (a code outside the price strings).
Malformed == -1

\* The price levels of the input klines.
PriceStrings == 8..11

Fields == PriceStrings \cup {Malformed}

\* parseFloat on an OHLC field
parseFloat(str) == IF str = Malformed THEN NaN ELSE Num(str)

\* `!initialEntryPrice`: NaN and 0 are falsy
Falsy(n) == IsNaN(n) \/ n = Zero

\* A candle without wicks, or one whose wicks span the whole price range.
WellFormed(c) ==
  /\ {c.open, c.high, c.low, c.close} \subseteq PriceStrings
  /\ \/ c.low = Min(c.open, c.close) /\ c.high = Max(c.open, c.close)
     \/ \A p \in PriceStrings : c.low <= p /\ p <= c.high

\* A candle with exactly one unusable field; the other three spell 10.
OneFieldMalformed(c) ==
  \E bad \in {"open", "high", "low", "close"} :
    \A f \in {"open", "high", "low", "close"} :
      c[f] = IF f = bad THEN Malformed ELSE 10

Candles ==
  {c \in [open : Fields, high : Fields, low : Fields, close : Fields] :
     WellFormed(c) \/ OneFieldMalformed(c)}

\* No kline is in scope (outside the body of the kline loop).
NoKline == [open |-> Malformed, high |-> Malformed, low |-> Malformed,
            close |-> Malformed]

Tier(floor, cap, rate, amount) ==
  [bracketNotionalFloor |-> floor, bracketNotionalCap |-> cap,
   bracketMaintenanceMarginRate |-> rate, cumFastMaintenanceAmount |-> amount]

\* Contents of data/maintenance-margin-rates.json: a two-tier table for the
\* symbol, a table that ends at notional 60, and a file without the symbol.
TieredFile ==
  <<[symbol |-> "ETHUSDT",
     riskBrackets |-> <<Tier(Zero, Num(100000), Frac(1, 100), Zero)>>],
    [symbol |-> "BTCUSDT",
     riskBrackets |-> <<Tier(Zero, Num(50), Frac(1, 200), Zero),
                        Tier(Num(50), Num(100000), Frac(1, 100), Frac(1, 4))>>]>>

CappedFile ==
  <<[symbol |-> "BTCUSDT",
     riskBrackets |-> <<Tier(Zero, Num(60), Frac(1, 200), Zero)>>]>>

OtherSymbolFile ==
  <<[symbol |-> "ETHUSDT",
     riskBrackets |-> <<Tier(Zero, Num(100000), Frac(1, 100), Zero)>>]>>

RatesFiles == {TieredFile, CappedFile, OtherSymbolFile}

BacktestConfig(leverage, maxOrdersPerSide) ==
  [tradingPair |-> "BTCUSDT",
   leverage |-> Num(leverage),
   priceDeviationPercent |-> Num(10),
   priceDeviationMultiplier |-> Num(1),
   orderSizeMultiplier |-> Num(1),
   initialMargin |-> Num(10),
   maxOrdersPerSide |-> maxOrdersPerSide,
   takeProfitPercent |-> Num(5),
   stopLossPercent |-> Num(10),
   pricePrecision |-> 0]

\* The runs explored: leverage 3 reaches four rungs a side under the tiered
\* table and every maxOrdersPerSide is tried with it; leverage 5 stops after
\* two rungs; the capped table stops the short side after one rung.
Scenarios ==
  {[config |-> BacktestConfig(3, m), file |-> TieredFile] : m \in 1..MaxOrders}
    \cup {[config |-> BacktestConfig(5, MaxOrders), file |-> TieredFile],
          [config |-> BacktestConfig(3, 2), file |-> CappedFile],
          [config |-> BacktestConfig(3, 2), file |-> OtherSymbolFile]}

(***************************************************************************)
(* liquicalc.ts: backtest                                                  *)
(***************************************************************************)
VARIABLES
  pc,                 \* "start", "kline" (loop head), "sample", "done", "threw"
  backtestConfig,     \* the argument, without klines
  ratesFile,          \* the stored risk-bracket file
  k,                  \* number of klines read so far
  kline,              \* the kline at hand (with its time)
  priceMovement,      \* the four samples of that kline
  j,                  \* index in priceMovement of the next sample
  state,
  events,
  initialEntryPrice,
  longPositions,
  shortPositions,
  longStopLossPrice,
  shortStopLossPrice,
  returned            \* the resolved value of the promise, once "done"

\* The state outside one backtest run: a direct call of the simulator, a
\* pair of backtest runs in one process, and the command-line program.
VARIABLES
  ladderConfig,       \* the config object handed to calculateLiquidationPrices
  ladder,             \* <<>> before the call, then its outcome
  runs,               \* per run: its arguments and its position in backtest
  frames,             \* per closure: the mutable locals of backtest
  cli,                \* the command-line program: position, inputs, effects
  exchange,           \* the requests sent to the exchange so far, in order
  placing             \* a call of placeMultipleOrders: arguments and position

vars == <<pc, backtestConfig, ratesFile, k, kline, priceMovement, j, state,
          events, initialEntryPrice, longPositions, shortPositions,
          longStopLossPrice, shortStopLossPrice, returned,
          ladderConfig, ladder, runs, frames, cli, exchange, placing>>

\* The variables of a direct simulator call, of the paired runs and of the
\* command-line program, which a single backtest run leaves alone.
simulatorVars == <<ladderConfig, ladder>>

pairVars == <<runs, frames>>

cliVars == <<cli, exchange, placing>>

\* The variables of the single backtest run, except the stored file.
backtestVars == <<pc, backtestConfig, k, kline, priceMovement, j, state,
                  events, initialEntryPrice, longPositions, shortPositions,
                  longStopLossPrice, shortStopLossPrice, returned>>

\* The seeds tabulated below: the whole prices around the kline prices.
SeedLevels == {Num(p) : p \in 1..20}

\* calculatePositionsBothSides is a pure function of the configuration, the
\* seed and the stored file; its results for the runs explored, computed once.
LadderTable ==
  [run \in {<<scenario.config, seed, scenario.file>> :
              scenario \in Scenarios, seed \in SeedLevels} |->
     calculatePositionsBothSides(run[1], run[2], run[3])]

\* The result of calculatePositionsBothSides, looked up when tabulated.
BothSides(config, entryPrice, file) ==
  IF <<config, entryPrice, file>> \in DOMAIN LadderTable
    THEN LadderTable[<<config, entryPrice, file>>]
    ELSE calculatePositionsBothSides(config, entryPrice, file)

\* The mutable locals of backtest, as one record; threw marks a rejection.
Locals ==
  [state |-> state, events |-> events, initialEntryPrice |-> initialEntryPrice,
   longPositions |-> longPositions, shortPositions |-> shortPositions,
   longStopLossPrice |-> longStopLossPrice,
   shortStopLossPrice |-> shortStopLossPrice, threw |-> FALSE]

\* calculatePositions leaving both stop-loss prices as they were
calculatePositionsStaleStops(s, entryPrice, config, file) ==
  Let(BothSides(config, entryPrice, file), LAMBDA result :
    IF result.threw THEN [s EXCEPT !.threw = TRUE]
    ELSE [s EXCEPT !.longPositions = result.longPositions,
                   !.shortPositions = result.shortPositions])

\* The closure calculatePositions(entryPrice): all four pieces of ladder
\* data are replaced by one result of calculatePositionsBothSides.
calculatePositions(s, entryPrice, config, file) ==
  Let(BothSides(config, entryPrice, file), LAMBDA result :
    IF result.threw THEN [s EXCEPT !.threw = TRUE]
    ELSE [s EXCEPT !.longPositions = result.longPositions,
                   !.shortPositions = result.shortPositions,
                   !.longStopLossPrice = result.longStopLossPrice,
                   !.shortStopLossPrice = result.shortStopLossPrice])

\* positions[i] of JavaScript (0-based) exists
HasRung(positions, i) == i >= 0 /\ i < Len(positions)

Rung(positions, i) == positions[i + 1]

\* Reading a property of an undefined rung: TypeError
TypeError(s) == [s EXCEPT !.threw = TRUE]

\* A first crossing that enters the ladder at magnitude 1
ShallowFirstDepth == 2 - 1

\* The state a first crossing in state 0 enters: magnitude 2
FirstDepth == 2

BacktestEvent(time, from, to, endResult) ==
  [time |-> time, stateTransitionFrom |-> from, stateTransitionTo |-> to,
   endResult |-> endResult]

\* events.push of a transition without the assignment to state
AdvanceKeepingState(s, time, to) ==
  [s EXCEPT !.events = Append(s.events, BacktestEvent(time, s.state, to, "NONE"))]

\* events.push of a transition without endResult, then the assignment
Advance(s, time, to) ==
  [s EXCEPT !.events = Append(s.events, BacktestEvent(time, s.state, to, "NONE")),
            !.state = to]

\* A resolution that rebuilds the ladder but keeps the old seed variable
ResolveKeepingSeed(s, time, endResult, level, config, file) ==
  Let(calculatePositions(
        [s EXCEPT
           !.events = Append(s.events, BacktestEvent(time, s.state, 0, endResult))],
        level, config, file), LAMBDA rebuilt :
    IF rebuilt.threw THEN rebuilt ELSE [rebuilt EXCEPT !.state = 0])

\* A resolution that keeps the ladder in use: no rebuild
ResolveWithoutRebuild(s, time, endResult, level, config, file) ==
  [s EXCEPT
     !.events = Append(s.events, BacktestEvent(time, s.state, 0, endResult)),
     !.initialEntryPrice = level,
     !.state = 0]

\* A take-profit or stop-loss branch: events.push, the new seed,
\* await calculatePositions(seed), state = 0.
Resolve(s, time, endResult, level, config, file) ==
  Let(calculatePositions(
        [s EXCEPT
           !.events = Append(s.events, BacktestEvent(time, s.state, 0, endResult)),
           !.initialEntryPrice = level],
        level, config, file), LAMBDA rebuilt :
    IF rebuilt.threw THEN rebuilt ELSE [rebuilt EXCEPT !.state = 0])

\* if (state === 0) { ... }
FirstEntry(s, price, time, config) ==
  LET pp == config.pricePrecision IN
  IF s.state # 0 THEN s
  ELSE IF ~HasRung(s.longPositions, 1) THEN TypeError(s)
  ELSE IF Le(price, roundDown(Rung(s.longPositions, 1).entryPrice, pp))
    THEN Advance(s, time, -FirstDepth)
  ELSE IF ~HasRung(s.shortPositions, 1) THEN TypeError(s)
  ELSE IF Ge(price, roundUp(Rung(s.shortPositions, 1).entryPrice, pp))
    THEN Advance(s, time, FirstDepth)
  ELSE s

\* if (2 <= Math.abs(state) && Math.abs(state) < maxOrdersPerSide) { ... }
MiddleDepth(s, price, time, config, file) ==
  LET pp == config.pricePrecision
      depth == Abs(s.state)
  IN
  IF ~(2 <= depth /\ depth < config.maxOrdersPerSide) THEN s
  ELSE IF s.state < 0
    THEN IF ~HasRung(s.longPositions, depth) THEN TypeError(s)
         ELSE IF Le(price, roundDown(Rung(s.longPositions, depth).entryPrice, pp))
           THEN Advance(s, time, s.state - 1)
         ELSE IF ~HasRung(s.longPositions, depth - 1) THEN TypeError(s)
         ELSE IF Ge(price, roundUp(Rung(s.longPositions, depth - 1).takeProfitPrice, pp))
           THEN Resolve(s, time, "PROFIT",
                        roundUp(Rung(s.longPositions, depth - 1).takeProfitPrice, pp),
                        config, file)
         ELSE s
    ELSE IF ~HasRung(s.shortPositions, depth) THEN TypeError(s)
         ELSE IF Ge(price, roundUp(Rung(s.shortPositions, depth).entryPrice, pp))
           THEN Advance(s, time, s.state + 1)
         ELSE IF ~HasRung(s.shortPositions, depth - 1) THEN TypeError(s)
         ELSE IF Le(price, roundDown(Rung(s.shortPositions, depth - 1).takeProfitPrice, pp))
           THEN Resolve(s, time, "PROFIT",
                        roundDown(Rung(s.shortPositions, depth - 1).takeProfitPrice, pp),
                        config, file)
         ELSE s

\* if (Math.abs(state) === maxOrdersPerSide) { ... }
FullDepth(s, price, time, config, file) ==
  LET pp == config.pricePrecision
      depth == Abs(s.state)
  IN
  IF depth # config.maxOrdersPerSide THEN s
  ELSE IF s.state < 0
    THEN IF Le(price, roundDown(s.longStopLossPrice, pp))
           THEN Resolve(s, time, "LOSS", roundDown(s.longStopLossPrice, pp), config, file)
         ELSE IF ~HasRung(s.longPositions, depth - 1) THEN TypeError(s)
         ELSE IF Ge(price, roundUp(Rung(s.longPositions, depth - 1).takeProfitPrice, pp))
           THEN Resolve(s, time, "PROFIT",
                        roundUp(Rung(s.longPositions, depth - 1).takeProfitPrice, pp),
                        config, file)
         ELSE s
  ELSE IF s.state > 0
    THEN IF Ge(price, roundUp(s.shortStopLossPrice, pp))
           THEN Resolve(s, time, "LOSS", roundUp(s.shortStopLossPrice, pp), config, file)
         ELSE IF ~HasRung(s.shortPositions, depth - 1) THEN TypeError(s)
         ELSE IF Le(price, roundDown(Rung(s.shortPositions, depth - 1).takeProfitPrice, pp))
           THEN Resolve(s, time, "PROFIT",
                        roundDown(Rung(s.shortPositions, depth - 1).takeProfitPrice, pp),
                        config, file)
         ELSE s
  ELSE s

\* The body of `for (const price of priceMovement)`: the three if
\* statements in sequence; a rejection skips what follows.
OnPrice(s, price, time, config, file) ==
  Let(FirstEntry(s, price, time, config), LAMBDA s1 :
  Let(IF s1.threw THEN s1 ELSE MiddleDepth(s1, price, time, config, file), LAMBDA s2 :
    IF s2.threw THEN s2 ELSE FullDepth(s2, price, time, config, file)))

\* A price path on which a candle that closes at its open counts as down
PriceMovementTieDown(c) ==
  LET open == parseFloat(c.open)
      high == parseFloat(c.high)
      low == parseFloat(c.low)
      close == parseFloat(c.close)
  IN IF Gt(close, open) THEN <<open, low, high, close>>
     ELSE <<open, high, low, close>>

\* isGreen ? [open, low, high, close] : [open, high, low, close]
PriceMovement(c) ==
  LET open == parseFloat(c.open)
      high == parseFloat(c.high)
      low == parseFloat(c.low)
      close == parseFloat(c.close)
      isGreen == Ge(close, open)
  IN IF isGreen THEN <<open, low, high, close>> ELSE <<open, high, low, close>>

Init ==
  /\ pc = "start"
  /\ \E scenario \in Scenarios :
       /\ backtestConfig = scenario.config
       /\ ratesFile = scenario.file
  /\ k = 0
  /\ kline = NoKline
  /\ priceMovement = <<>>
  /\ j = 0
  /\ state = 0
  /\ events = <<>>
  /\ initialEntryPrice = NaN
  /\ longPositions = <<>>
  /\ shortPositions = <<>>
  /\ longStopLossPrice = Zero
  /\ shortStopLossPrice = Zero
  /\ returned = <<>>
  /\ ladderConfig = <<>>
  /\ ladder = <<>>
  /\ runs = <<>>
  /\ frames = <<>>
  /\ cli = <<>>
  /\ exchange = <<>>
  /\ placing = <<>>

\* backtest up to the kline loop: the seed is parsed from the open of the
\* first kline (a missing kline parses like a malformed field) and the first
\* ladder is built.
Start ==
  /\ pc = "start"
  /\ \E open \in Fields :
     \E seed \in {parseFloat(open)} :
     \E built \in {IF Falsy(seed) THEN Locals
                    ELSE calculatePositions(Locals, seed, backtestConfig, ratesFile)} :
          IF Falsy(seed)
            THEN /\ pc' = "done"
                 /\ UNCHANGED <<initialEntryPrice, longPositions, shortPositions,
                                longStopLossPrice, shortStopLossPrice>>
            ELSE /\ pc' = IF built.threw THEN "threw" ELSE "kline"
                 /\ initialEntryPrice' = seed
                 /\ longPositions' = built.longPositions
                 /\ shortPositions' = built.shortPositions
                 /\ longStopLossPrice' = built.longStopLossPrice
                 /\ shortStopLossPrice' = built.shortStopLossPrice
  /\ UNCHANGED <<backtestConfig, ratesFile, k, kline, priceMovement, j, state,
                 events, returned>>
  /\ UNCHANGED <<simulatorVars, pairVars, cliVars>>

\* The head of `for (const kline of klines)` with a kline left.  The open of
\* the first kline is the field Start parsed; a later kline is any candle.
NextKline ==
  /\ pc = "kline"
  /\ k < MaxKlines
  /\ \E c \in Candles :
       /\ k = 0 => parseFloat(c.open) = initialEntryPrice
       /\ kline' = c
       /\ priceMovement' = PriceMovement(c)
  /\ k' = k + 1
  /\ j' = 1
  /\ pc' = "sample"
  /\ UNCHANGED <<backtestConfig, ratesFile, state, events, initialEntryPrice,
                 longPositions, shortPositions, longStopLossPrice,
                 shortStopLossPrice, returned>>
  /\ UNCHANGED <<simulatorVars, pairVars, cliVars>>

\* One iteration of `for (const price of priceMovement)`; after the fourth
\* sample the kline and its samples go out of scope.
ProcessSample ==
  /\ pc = "sample"
  /\ \E s \in {OnPrice(Locals, priceMovement[j], k, backtestConfig, ratesFile)} :
        /\ pc' = IF s.threw THEN "threw" ELSE IF j = 4 THEN "kline" ELSE "sample"
        /\ state' = s.state
        /\ events' = s.events
        /\ initialEntryPrice' = s.initialEntryPrice
        /\ longPositions' = s.longPositions
        /\ shortPositions' = s.shortPositions
        /\ longStopLossPrice' = s.longStopLossPrice
        /\ shortStopLossPrice' = s.shortStopLossPrice
        /\ IF j = 4 /\ ~s.threw
             THEN kline' = NoKline /\ priceMovement' = <<>> /\ j' = 0
             ELSE UNCHANGED <<kline, priceMovement>> /\ j' = j + 1
  /\ UNCHANGED <<backtestConfig, ratesFile, k, returned>>
  /\ UNCHANGED <<simulatorVars, pairVars, cliVars>>

\* The kline loop is exhausted: return events.
Finish ==
  /\ pc = "kline"
  /\ k >= 1
  /\ pc' = "done"
  /\ returned' = events
  /\ UNCHANGED <<backtestConfig, ratesFile, k, kline, priceMovement, j, state,
                 events, initialEntryPrice, longPositions, shortPositions,
                 longStopLossPrice, shortStopLossPrice>>
  /\ UNCHANGED <<simulatorVars, pairVars, cliVars>>

Next == Start \/ NextKline \/ ProcessSample \/ Finish

Spec == Init /\ [][Next]_vars

(***************************************************************************)
(* Properties of backtest.  The sampled prices are whole numbers and       *)
(* pricePrecision is 0, as the klines of the exchange are quoted at the    *)
(* symbol's price precision: a price is at most a level exactly when it is *)
(* at most the level rounded down, and at least a level exactly when it is *)
(* at least the level rounded up.                                          *)
(***************************************************************************)
maxOrdersPerSide == backtestConfig.maxOrdersPerSide

\* The sampled price a ProcessSample step evaluates.
SampledPrice == priceMovement[j]

\* The events a step appends to the log.
NewEvents == SubSeq(events', Len(events) + 1, Len(events'))

Last(seq) == seq[Len(seq)]

\* The least multiple of 10^-f that is >= n, and the greatest that is <= n.
GridCeil(n, f) == Div(Ceil(Mul(n, Pow(Num(10), f))), Pow(Num(10), f))

GridFloor(n, f) == Div(Floor(Mul(n, Pow(Num(10), f))), Pow(Num(10), f))

\* Event n of the log was appended by a sample that started in the state
\* the event leaves: the event before it, if any, is of an earlier kline.
StartedSample(n) == n = 1 \/ events[n - 1].time < events[n].time

\* C1: the magnitude of the state never exceeds maxOrdersPerSide, no event
\* enters a state of greater magnitude, and every event that leaves a state
\* of magnitude maxOrdersPerSide goes to 0.
C1_MagnitudeBounded ==
  /\ Abs(state) <= maxOrdersPerSide
  /\ \A n \in 1..Len(events) :
       /\ Abs(events[n].stateTransitionTo) <= maxOrdersPerSide
       /\ Abs(events[n].stateTransitionFrom) = maxOrdersPerSide
            => events[n].stateTransitionTo = 0

\* A run with maxOrdersPerSide >= 3 whose log holds a transition into the
\* full depth and a transition out of it.
C1_Witness ==
  /\ maxOrdersPerSide >= 3
  /\ \E m, n \in 1..Len(events) :
       /\ m < n
       /\ Abs(events[m].stateTransitionTo) = maxOrdersPerSide
       /\ Abs(events[n].stateTransitionFrom) = maxOrdersPerSide

\* C2: each sampled price appends at most one event to the log.
C2_AtMostOneEvent == [][Len(events') <= Len(events) + 1]_vars

\* C3: a sample taken in state 0 at or below the entry price of long rung 1
\* appends the untagged event 0 -> -2; otherwise one at or above the entry
\* price of short rung 1 appends the untagged event 0 -> +2; otherwise the
\* sample appends nothing.  The state is never -1 or +1.
C3_FirstCrossing ==
  [][/\ state' \notin {-1, 1}
     /\ (/\ pc = "sample"
         /\ state = 0
         /\ HasRung(longPositions, 1)
         /\ HasRung(shortPositions, 1))
          => IF Le(SampledPrice, Rung(longPositions, 1).entryPrice)
               THEN /\ NewEvents # <<>>
                    /\ Head(NewEvents) = BacktestEvent(k, 0, -2, "NONE")
             ELSE IF Ge(SampledPrice, Rung(shortPositions, 1).entryPrice)
               THEN /\ NewEvents # <<>>
                    /\ Head(NewEvents) = BacktestEvent(k, 0, 2, "NONE")
             ELSE NewEvents = <<>> /\ state' = 0]_vars

\* One log holds a first crossing to the long side and one to the short side.
C3_Witness ==
  \E m, n \in 1..Len(events) :
    /\ events[m].stateTransitionFrom = 0 /\ events[m].stateTransitionTo = -2
    /\ events[n].stateTransitionFrom = 0 /\ events[n].stateTransitionTo = 2

\* C4: a sample taken at a depth of 2..maxOrdersPerSide-1 on the long side
\* at or below the entry price of the next long rung appends the untagged
\* event state -> state-1; otherwise one at or above the take-profit price
\* of the current rung appends state -> 0 tagged PROFIT and nothing else;
\* otherwise it appends nothing.  The short side mirrors it.  No sample
\* takes the state from one side to the other.
C4_MiddleDepth ==
  [][/\ state * state' >= 0
     /\ (/\ pc = "sample"
         /\ 2 <= Abs(state)
         /\ Abs(state) < maxOrdersPerSide)
          => IF state < 0
               THEN HasRung(longPositions, Abs(state)) =>
                 IF Le(SampledPrice, Rung(longPositions, Abs(state)).entryPrice)
                   THEN /\ NewEvents # <<>>
                        /\ Head(NewEvents) = BacktestEvent(k, state, state - 1, "NONE")
                 ELSE IF Ge(SampledPrice,
                            Rung(longPositions, Abs(state) - 1).takeProfitPrice)
                   THEN /\ NewEvents = <<BacktestEvent(k, state, 0, "PROFIT")>>
                        /\ state' = 0
                 ELSE NewEvents = <<>> /\ state' = state
               ELSE HasRung(shortPositions, Abs(state)) =>
                 IF Ge(SampledPrice, Rung(shortPositions, Abs(state)).entryPrice)
                   THEN /\ NewEvents # <<>>
                        /\ Head(NewEvents) = BacktestEvent(k, state, state + 1, "NONE")
                 ELSE IF Le(SampledPrice,
                            Rung(shortPositions, Abs(state) - 1).takeProfitPrice)
                   THEN /\ NewEvents = <<BacktestEvent(k, state, 0, "PROFIT")>>
                        /\ state' = 0
                 ELSE NewEvents = <<>> /\ state' = state]_vars

\* A sample that started in state -2 of a run with maxOrdersPerSide > 2 has
\* appended the step to -3.
C4_Witness ==
  \E n \in 2..Len(events) :
    /\ StartedSample(n)
    /\ events[n].stateTransitionFrom = -2
    /\ events[n].stateTransitionTo = -3
    /\ events[n].endResult = "NONE"

\* C5: a sample taken at depth maxOrdersPerSide on the long side at or below
\* the long stop-loss price appends state -> 0 tagged LOSS; otherwise one at
\* or above the take-profit price of the deepest rung appends state -> 0
\* tagged PROFIT; otherwise it appends nothing.  The short side mirrors it.
\* Every LOSS event of the log leaves a state of magnitude maxOrdersPerSide.
C5_FullDepth ==
  [][/\ \A n \in 1..Len(events') :
          events'[n].endResult = "LOSS"
            => Abs(events'[n].stateTransitionFrom) = maxOrdersPerSide
     /\ (pc = "sample" /\ Abs(state) = maxOrdersPerSide)
          => IF state < 0
               THEN
                 IF Le(SampledPrice, longStopLossPrice)
                   THEN /\ NewEvents = <<BacktestEvent(k, state, 0, "LOSS")>>
                        /\ state' = 0
                 ELSE IF Ge(SampledPrice,
                            Rung(longPositions, Abs(state) - 1).takeProfitPrice)
                   THEN /\ NewEvents = <<BacktestEvent(k, state, 0, "PROFIT")>>
                        /\ state' = 0
                 ELSE NewEvents = <<>> /\ state' = state
               ELSE
                 IF Ge(SampledPrice, shortStopLossPrice)
                   THEN /\ NewEvents = <<BacktestEvent(k, state, 0, "LOSS")>>
                        /\ state' = 0
                 ELSE IF Le(SampledPrice,
                            Rung(shortPositions, Abs(state) - 1).takeProfitPrice)
                   THEN /\ NewEvents = <<BacktestEvent(k, state, 0, "PROFIT")>>
                        /\ state' = 0
                 ELSE NewEvents = <<>> /\ state' = state]_vars

\* A sample that started at full depth on the long side has appended the
\* stop-loss.
C5_Witness ==
  \E n \in 2..Len(events) :
    /\ StartedSample(n)
    /\ events[n].stateTransitionFrom = -maxOrdersPerSide
    /\ events[n].endResult = "LOSS"

\* C6: at every sample the long rungs, the short rungs with their
\* take-profit prices and both stop-loss prices are the output of one build
\* from the current seed.
C6_OneBuild ==
  pc \in {"kline", "sample"} =>
    \E built \in {BothSides(backtestConfig, initialEntryPrice, ratesFile)} :
      /\ ~built.threw
      /\ longPositions = built.longPositions
      /\ shortPositions = built.shortPositions
      /\ longStopLossPrice = built.longStopLossPrice
      /\ shortStopLossPrice = built.shortStopLossPrice

\* A sample is about to be evaluated after a resolution of an earlier kline
\* whose seed is not the open of the kline at hand.
C6_Witness ==
  /\ pc = "sample"
  /\ events # <<>>
  /\ Last(events).endResult \in {"PROFIT", "LOSS"}
  /\ Last(events).time < k
  /\ initialEntryPrice # parseFloat(kline.open)

\* C7 as stated: the seed after a PROFIT or LOSS transition is the sampled
\* price that triggered it.
C7_SeedIsSampledPrice ==
  [][(NewEvents # <<>> /\ Last(NewEvents).endResult # "NONE")
       => initialEntryPrice' = SampledPrice]_vars

\* The level a resolution event e was triggered at, from the ladder in use
\* before the step: a stop-loss price or the take-profit price of the rung
\* the event leaves.
TriggerLevel(e) ==
  IF e.endResult = "LOSS"
    THEN (IF e.stateTransitionFrom < 0 THEN longStopLossPrice ELSE shortStopLossPrice)
    ELSE IF e.stateTransitionFrom < 0
      THEN Rung(longPositions, Abs(e.stateTransitionFrom) - 1).takeProfitPrice
      ELSE Rung(shortPositions, Abs(e.stateTransitionFrom) - 1).takeProfitPrice

\* A long take-profit and a short stop-loss are reached from below.
ReachedFromBelow(e) == (e.endResult = "PROFIT") <=> (e.stateTransitionFrom < 0)

\* C7 amended: the seed after a PROFIT or LOSS transition is the trigger
\* level of that transition rounded to pricePrecision (up when the level is
\* reached from below, down when from above), which the sampled price has
\* reached or passed.
C7_SeedIsTriggerLevel ==
  [][(NewEvents # <<>> /\ Last(NewEvents).endResult # "NONE")
       => IF ReachedFromBelow(Last(NewEvents))
            THEN /\ initialEntryPrice' =
                      GridCeil(TriggerLevel(Last(NewEvents)), backtestConfig.pricePrecision)
                 /\ Ge(SampledPrice, initialEntryPrice')
            ELSE /\ initialEntryPrice' =
                      GridFloor(TriggerLevel(Last(NewEvents)), backtestConfig.pricePrecision)
                 /\ Le(SampledPrice, initialEntryPrice')]_vars

\* The first sample of a kline has resolved a position with a take-profit
\* and the seed is not the price of that sample.
C7_Witness ==
  /\ pc = "sample"
  /\ j = 2
  /\ events # <<>>
  /\ Last(events).endResult = "PROFIT"
  /\ Last(events).time = k
  /\ initialEntryPrice # priceMovement[1]

\* The ladder data backtest holds is the build from seed.
LadderBuiltFrom(seed, long, short, longStop, shortStop) ==
  \E built \in {BothSides(backtestConfig, seed, ratesFile)} :
    /\ long = built.longPositions
    /\ short = built.shortPositions
    /\ longStop = built.longStopLossPrice
    /\ shortStop = built.shortStopLossPrice

\* C8 as stated: a sample taken in state +maxOrdersPerSide at or above the
\* short stop-loss price appends exactly one event, tagged LOSS, sets the
\* state to 0 and leaves a ladder built with the stop-loss price as seed.
C8_SeedIsStopLoss ==
  [][(/\ pc = "sample"
      /\ state = maxOrdersPerSide
      /\ Ge(SampledPrice, shortStopLossPrice))
       => /\ NewEvents = <<BacktestEvent(k, state, 0, "LOSS")>>
          /\ state' = 0
          /\ initialEntryPrice' = shortStopLossPrice
          /\ LadderBuiltFrom(shortStopLossPrice, longPositions', shortPositions',
                             longStopLossPrice', shortStopLossPrice')]_vars

\* C8 amended: ... and leaves a ladder built with the short stop-loss price
\* rounded up to pricePrecision as seed.
C8_SeedIsRoundedStopLoss ==
  [][(/\ pc = "sample"
      /\ state = maxOrdersPerSide
      /\ Ge(SampledPrice, shortStopLossPrice))
       => \E seed \in {GridCeil(shortStopLossPrice, backtestConfig.pricePrecision)} :
            /\ NewEvents = <<BacktestEvent(k, state, 0, "LOSS")>>
            /\ state' = 0
            /\ initialEntryPrice' = seed
            /\ LadderBuiltFrom(seed, longPositions', shortPositions',
                               longStopLossPrice', shortStopLossPrice')
            /\ ~LadderBuiltFrom(initialEntryPrice, longPositions', shortPositions',
                                longStopLossPrice', shortStopLossPrice')]_vars

\* A sample that started at full depth on the short side has appended the
\* stop-loss, and the next sample of the kline is about to be evaluated.
C8_Witness ==
  /\ pc = "sample"
  /\ \E n \in 2..Len(events) :
       /\ n = Len(events)
       /\ StartedSample(n)
       /\ events[n].time = k
       /\ events[n].stateTransitionFrom = maxOrdersPerSide
       /\ events[n].endResult = "LOSS"

\* A kline with a missing or non-numeric open, high, low or close.
MalformedKline(c) == Malformed \in {c.open, c.high, c.low, c.close}

\* C9: backtest aborts on a kline with a malformed field: no sample of such
\* a kline is processed without the run ending in an error.
C9_MalformedAborts ==
  [][(pc = "sample" /\ MalformedKline(kline)) => pc' = "threw"]_vars

\* C10: backtest never evaluates a sample against a ladder with fewer than
\* maxOrdersPerSide rungs on a side.
C10_NoTruncatedLadder ==
  pc \in {"kline", "sample"} =>
    /\ Len(longPositions) >= maxOrdersPerSide
    /\ Len(shortPositions) >= maxOrdersPerSide

\* C26: each candle is processed as exactly four samples: open, low, high,
\* close when close >= open (a close equal to the open included) and open,
\* high, low, close when close < open.  The samples of a candle are taken in
\* that order, the candles in input order, and a candle is left for the next
\* one only after its fourth sample.
C26_FourSamplesInOrder ==
  [][/\ pc' = "sample" =>
          LET open == parseFloat(kline'.open)
              high == parseFloat(kline'.high)
              low == parseFloat(kline'.low)
              close == parseFloat(kline'.close)
          IN /\ Len(priceMovement') = 4
             /\ j' \in 1..4
             /\ Ge(close, open) => priceMovement' = <<open, low, high, close>>
             /\ Lt(close, open) => priceMovement' = <<open, high, low, close>>
     /\ (pc = "sample" /\ pc' = "sample") =>
          kline' = kline /\ priceMovement' = priceMovement /\ k' = k /\ j' = j + 1
     /\ (pc = "kline" /\ pc' = "sample") => k' = k + 1 /\ j' = 1
     /\ (pc = "sample" /\ pc' \in {"kline", "done"}) => j = 4
     /\ (pc = "sample" /\ pc' = "kline") => k' = k
    ]_vars

\* The second candle opens and closes at 10 with a low of 8 and a high of
\* 11; its low has been processed and its high, the third sample, is next.
C26_Witness ==
  /\ pc = "sample"
  /\ k = 2
  /\ kline.open = 10 /\ kline.close = 10 /\ kline.low = 8 /\ kline.high = 11
  /\ j = 3
  /\ priceMovement = <<Num(10), Num(8), Num(11), Num(10)>>

(***************************************************************************)
(* libs/libliqui: calculateLiquidationPrices called directly               *)
(***************************************************************************)
\* Values of the variables of a part of the program that is not running.
NoBacktest ==
  /\ pc = "off"
  /\ backtestConfig = <<>>
  /\ k = 0
  /\ kline = NoKline
  /\ priceMovement = <<>>
  /\ j = 0
  /\ state = 0
  /\ events = <<>>
  /\ initialEntryPrice = NaN
  /\ longPositions = <<>>
  /\ shortPositions = <<>>
  /\ longStopLossPrice = Zero
  /\ shortStopLossPrice = Zero
  /\ returned = <<>>

NoSimulatorCall == ladderConfig = <<>> /\ ladder = <<>>

NoPair == runs = <<>> /\ frames = <<>>

NoCli == cli = <<>> /\ exchange = <<>> /\ placing = <<>>

\* A LiquidationPriceConfig for BTCUSDT with an initial margin of 10.
LadderConfig(mode, leverage, deviation, deviationMultiplier, sizeMultiplier, entry) ==
  [tradingPair |-> "BTCUSDT",
   mode |-> mode,
   leverage |-> Num(leverage),
   priceDeviationPercent |-> Num(deviation),
   priceDeviationMultiplier |-> Num(deviationMultiplier),
   orderSizeMultiplier |-> Num(sizeMultiplier),
   initialEntryPrice |-> Num(entry),
   initialMargin |-> Num(10)]

\* A table whose second tier, from notional 150 on, has a rate of 9%.
SteepFile ==
  <<[symbol |-> "BTCUSDT",
     riskBrackets |-> <<Tier(Zero, Num(150), Frac(1, 200), Zero),
                        Tier(Num(150), Num(100000), Frac(9, 100), Zero)>>]>>

\* The configs the simulator is called with.  The type of config.mode and of
\* the numbers is not checked at run time: "BOTH" stands for a mode that is
\* neither LONG nor SHORT, and leverage, entry price and deviation include 0.
\* The multipliers are 2 only where the ladder ends within a few rungs, so
\* that the exact arithmetic stays within the integers of TLC: with the
\* deviation 50 the ladder has one rung, with the deviation 10 doubling from
\* rung to rung it has three to five.  With the leverage 1/2 the long
\* liquidation prices are negative.
LadderConfigs ==
  {config \in
     {LadderConfig(mode, leverage, deviation, deviationMultiplier, sizeMultiplier, entry) :
        mode \in {"LONG", "SHORT", "BOTH"}, leverage \in {0, 3, 125},
        deviation \in {0, 10, 50}, deviationMultiplier \in {1, 2},
        sizeMultiplier \in {1, 2}, entry \in {0, 10}} :
     \/ config.orderSizeMultiplier = Num(1) /\ config.priceDeviationMultiplier = Num(1)
     \/ config.leverage # Zero /\ config.priceDeviationPercent = Num(50)}
    \cup {LadderConfig(mode, 10, 5, 1, 1, 10) : mode \in {"LONG", "SHORT"}}
    \cup {LadderConfig(mode, leverage, 10, 2, 1, 10) :
            mode \in {"LONG", "SHORT"}, leverage \in {1, 3}}
    \cup {[LadderConfig(mode, 1, 10, 2, 1, 10) EXCEPT !.leverage = Frac(1, 2)] :
            mode \in {"LONG", "SHORT"}}

SimulatorInit ==
  /\ ladderConfig \in LadderConfigs
  /\ ladder = <<>>
  /\ ratesFile \in RatesFiles \cup {SteepFile}
  /\ NoBacktest
  /\ NoPair
  /\ NoCli

\* One call of calculateLiquidationPrices(ladderConfig), awaited: the write
\* to config.mode, the read of the stored file and the rung loop.
Simulate ==
  /\ ladder = <<>>
  /\ ladderConfig' = NormalizedMode(ladderConfig)
  /\ ladder' = calculateLiquidationPrices(ladderConfig, ratesFile)
  /\ UNCHANGED <<ratesFile, backtestVars, pairVars, cliVars>>

SimulatorSpec == SimulatorInit /\ [][Simulate]_vars

(***************************************************************************)
(* Properties of a direct call of the simulator                            *)
(***************************************************************************)
\* The call has settled.
Called == ladder # <<>>

\* C11: a call whose config has leverage 0 or initialEntryPrice 0 is
\* rejected before the rung loop: it never returns normally, with an empty or
\* a non-empty list of rungs.
C11_ZeroRejected ==
  (/\ Called
   /\ \/ ladderConfig.leverage = Zero
      \/ ladderConfig.initialEntryPrice = Zero)
    => ladder.threw

\* C12: when no tier of the symbol's table holds the notional value of the
\* position at some rung, the call is rejected: it does not return normally
\* with the rungs computed so far.
C12_NoBracketRejected ==
  (Called /\ ladder.exit = "nobracket") => ladder.threw

\* The leverages the command-line programs accept: the integers 1..125.
AcceptedLeverage(leverage) ==
  IsInteger(leverage) /\ Ge(leverage, Num(1)) /\ Le(leverage, Num(125))

\* C13: for an accepted leverage, the liquidation price of the first rung of
\* a returned ladder is not higher than the initial entry price for LONG and
\* not lower than it for SHORT.
C13_FirstRungLiquidation ==
  (/\ Called
   /\ AcceptedLeverage(ladderConfig.leverage)
   /\ Len(ladder.rungs) >= 1)
    => IF ladderConfig.mode = "LONG"
         THEN Le(ladder.rungs[1].liquidationPrice, ladderConfig.initialEntryPrice)
         ELSE Ge(ladder.rungs[1].liquidationPrice, ladderConfig.initialEntryPrice)

\* x lies strictly between a and b, whichever of the two is the smaller.
StrictlyBetween(x, a, b) ==
  \/ Lt(a, x) /\ Lt(x, b)
  \/ Lt(b, x) /\ Lt(x, a)

\* C14: in every returned ladder the average entry price of a rung after the
\* first lies strictly between the entry price of that rung and the average
\* entry price of the rung before it.
C14_AverageBetween ==
  Called =>
    \A i \in 2..Len(ladder.rungs) :
      StrictlyBetween(ladder.rungs[i].avgEntryPrice,
                      ladder.rungs[i].entryPrice,
                      ladder.rungs[i - 1].avgEntryPrice)

\* The asset quantity of the position at rung i: the quantities added so far.
RECURSIVE PositionSizeAt(_, _)
PositionSizeAt(rungs, i) ==
  IF i = 0 THEN Zero ELSE Add(PositionSizeAt(rungs, i - 1), rungs[i].orderSizeBase)

\* The maintenance margin of the position at rung i under the symbol's table:
\* notional value times the rate of its tier, less the tier's amount.
MaintenanceMarginAt(rungs, i, riskBrackets) ==
  LET notional == Mul(rungs[i].entryPrice, PositionSizeAt(rungs, i))
      tier == FindRiskBracket(riskBrackets, notional, 1)[1]
  IN Sub(Mul(notional, tier.bracketMaintenanceMarginRate),
         tier.cumFastMaintenanceAmount)

\* The table of the config's symbol in the stored file.
StoredBrackets == FindSymbol(ratesFile, ladderConfig.tradingPair, 1)[1].riskBrackets

\* C15: every returned rung whose maintenance margin is smaller than the total
\* margin invested up to that rung has a liquidation price strictly below its
\* average entry price for LONG and strictly above it for SHORT.
C15_LiquidationBeyondAverage ==
  Called =>
    \A i \in 1..Len(ladder.rungs) :
      Lt(MaintenanceMarginAt(ladder.rungs, i, StoredBrackets),
         ladder.rungs[i].totalInvesment)
        => IF ladderConfig.mode = "LONG"
             THEN Lt(ladder.rungs[i].liquidationPrice, ladder.rungs[i].avgEntryPrice)
             ELSE Gt(ladder.rungs[i].liquidationPrice, ladder.rungs[i].avgEntryPrice)

\* The deviation percent of the move to rung i (rung 0 is the first):
\* deviationPercent * multiplier^(i-1), the multiplier counting only when it
\* is not 1.
DeviationPercentAt(config, i) ==
  IF config.priceDeviationMultiplier = Num(1)
    THEN config.priceDeviationPercent
    ELSE Mul(config.priceDeviationPercent,
             Pow(config.priceDeviationMultiplier, i - 1))

\* The sum of the deviation percents of the moves to the rungs 1..i.
RECURSIVE SumOfDeviations(_, _)
SumOfDeviations(config, i) ==
  IF i = 0 THEN Zero
  ELSE Add(SumOfDeviations(config, i - 1), DeviationPercentAt(config, i))

TotalDeviationAt(config, i) ==
  IF config.priceDeviationMultiplier = Num(1)
    THEN Mul(Num(i), config.priceDeviationPercent)
    ELSE SumOfDeviations(config, i)

\* price moved by percent of base in the adverse direction of the mode.
MovedAdversely(price, base, percent, mode) ==
  IF mode = "LONG"
    THEN Sub(price, Div(Mul(base, percent), Num(100)))
    ELSE Add(price, Div(Mul(base, percent), Num(100)))

C24_LiquidationFormula ==
  Called =>
    \A i \in 1..Len(ladder.rungs) :
      ladder.rungs[i].liquidationPrice =
        LET distance ==
              Div(Sub(ladder.rungs[i].totalInvesment,
                      MaintenanceMarginAt(ladder.rungs, i, StoredBrackets)),
                  PositionSizeAt(ladder.rungs, i))
        IN IF ladderConfig.mode = "LONG"
             THEN Sub(ladder.rungs[i].avgEntryPrice, distance)
             ELSE Add(ladder.rungs[i].avgEntryPrice, distance)

\* C25: a rung after the first is in the returned ladder only if its price has
\* not crossed the liquidation price computed at the rung before it: the
\* price is above it for LONG and below it for SHORT, whatever the value of
\* that liquidation price, zero and negative values included.  The loop ends
\* at the first candidate that has crossed, so no later rung is appended.
C25_NotCrossed ==
  Called =>
    \A i \in 2..Len(ladder.rungs) :
      IF ladderConfig.mode = "LONG"
        THEN Gt(ladder.rungs[i].entryPrice, ladder.rungs[i - 1].liquidationPrice)
        ELSE Lt(ladder.rungs[i].entryPrice, ladder.rungs[i - 1].liquidationPrice)

\* C16: a call leaves every field of the config object as it was, whatever
\* the direction it was given.
C16_ConfigUntouched == [][ladderConfig' = ladderConfig]_vars

(***************************************************************************)
(* liquicalc.ts: backtest calls that overlap in one process.  A call runs  *)
(* without interruption from one await to the next.  Its awaits are those  *)
(* of calculatePositions; the reads of the stored file that one            *)
(* calculatePositions makes for its two sides are taken together.          *)
(***************************************************************************)
Runs == DOMAIN runs

\* One scope for the state, the events and the seed of every call
SharedClosure(r) == 1

\* The closure of call r: the scope that holds the state, the events and
\* the seed price which the body of call r reads and writes.
Closure(r) == r

\* One scope for the ladder data of every call
SharedLadderScope(r) == 1

\* The scope that holds the ladder data (positions and stop-loss prices of
\* both sides) which calculatePositions of call r assigns: call r's own.
LadderScope(r) == r

\* The locals of a call that has just been entered.
NewFrame ==
  [state |-> 0, events |-> <<>>, initialEntryPrice |-> NaN,
   longPositions |-> <<>>, shortPositions |-> <<>>,
   longStopLossPrice |-> Zero, shortStopLossPrice |-> Zero]

\* The locals that call r works on.
FrameOf(r) ==
  [state |-> frames[Closure(r)].state,
   events |-> frames[Closure(r)].events,
   initialEntryPrice |-> frames[Closure(r)].initialEntryPrice,
   longPositions |-> frames[LadderScope(r)].longPositions,
   shortPositions |-> frames[LadderScope(r)].shortPositions,
   longStopLossPrice |-> frames[LadderScope(r)].longStopLossPrice,
   shortStopLossPrice |-> frames[LadderScope(r)].shortStopLossPrice,
   threw |-> FALSE]

\* The scopes after call r has assigned the locals s.
FramesAfter(r, s) ==
  [c \in DOMAIN frames |->
     [state |-> IF c = Closure(r) THEN s.state ELSE frames[c].state,
      events |-> IF c = Closure(r) THEN s.events ELSE frames[c].events,
      initialEntryPrice |->
        IF c = Closure(r) THEN s.initialEntryPrice ELSE frames[c].initialEntryPrice,
      longPositions |->
        IF c = LadderScope(r) THEN s.longPositions ELSE frames[c].longPositions,
      shortPositions |->
        IF c = LadderScope(r) THEN s.shortPositions ELSE frames[c].shortPositions,
      longStopLossPrice |->
        IF c = LadderScope(r) THEN s.longStopLossPrice ELSE frames[c].longStopLossPrice,
      shortStopLossPrice |->
        IF c = LadderScope(r) THEN s.shortStopLossPrice
        ELSE frames[c].shortStopLossPrice]]

\* A call of backtest with its arguments, at its entry.  reads lists the
\* reads of the stored file the call has made: the table read, and whether
\* the call was inside the sample loop.
NewRun(config, klines) ==
  [pc |-> "start", config |-> config, klines |-> klines, k |-> 0, j |-> 0,
   returned |-> <<>>, reads |-> <<>>]

\* The candles of the overlapping calls: one that spans the price range
\* from 10, and a falling one from 11 to 8.
PairCandles ==
  {[open |-> 10, high |-> 11, low |-> 8, close |-> 10],
   [open |-> 11, high |-> 11, low |-> 8, close |-> 8]}

PairKlines == UNION {[1..n -> PairCandles] : n \in 1..MaxKlines}

\* Leverage 3 with a depth of 2 or the greatest depth.
PairConfigs == {BacktestConfig(3, 2), BacktestConfig(3, MaxOrders)}

PairInit ==
  /\ runs \in [{1, 2} -> {NewRun(config, klines) :
                             config \in PairConfigs, klines \in PairKlines}]
  /\ frames = [c \in {1, 2} |-> NewFrame]
  /\ ratesFile = TieredFile
  /\ NoBacktest
  /\ NoSimulatorCall
  /\ NoCli

\* backtest from its entry to its first await: the seed is parsed and, when
\* it is falsy, [] is returned; otherwise calculatePositions(seed) is awaited.
RunStart(r) ==
  /\ runs[r].pc = "start"
  /\ LET seed == parseFloat(runs[r].klines[1].open) IN
       IF Falsy(seed)
         THEN /\ runs' = [runs EXCEPT ![r].pc = "done", ![r].returned = <<>>]
              /\ frames' = FramesAfter(r, [FrameOf(r) EXCEPT !.initialEntryPrice = seed])
         ELSE /\ runs' = [runs EXCEPT ![r].pc = "build"]
              /\ frames' = FramesAfter(r, [FrameOf(r) EXCEPT !.initialEntryPrice = seed])
  /\ UNCHANGED <<ratesFile, backtestVars, simulatorVars, cliVars>>

\* The position in the sample loop after sample j of the kline at hand.
AfterSample(run) ==
  IF run.j = 4 THEN [run EXCEPT !.pc = "kline", !.j = 0]
  ELSE [run EXCEPT !.pc = "sample", !.j = run.j + 1]

\* An awaited calculatePositions(initialEntryPrice) completes: the stored
\* file is read, the ladder data is assigned and the call goes on, after
\* the first build with the kline loop, after a rebuild with state = 0 and
\* the next sample.
RunBuild(r) ==
  /\ runs[r].pc \in {"build", "rebuild"}
  /\ \E built \in {calculatePositions(FrameOf(r), FrameOf(r).initialEntryPrice,
                                      runs[r].config, ratesFile)} :
     \E read \in {[inLoop |-> runs[r].pc = "rebuild", table |-> ratesFile]} :
       IF built.threw
         THEN /\ runs' = [runs EXCEPT ![r].pc = "threw",
                                      ![r].reads = Append(runs[r].reads, read)]
              /\ UNCHANGED frames
       ELSE IF runs[r].pc = "build"
         THEN /\ runs' = [runs EXCEPT ![r].pc = "kline",
                                      ![r].reads = Append(runs[r].reads, read)]
              /\ frames' = FramesAfter(r, built)
       ELSE /\ runs' = [runs EXCEPT
                          ![r] = [AfterSample(runs[r]) EXCEPT
                                    !.reads = Append(runs[r].reads, read)]]
            /\ frames' = FramesAfter(r, [built EXCEPT !.state = 0])
  /\ UNCHANGED <<ratesFile, backtestVars, simulatorVars, cliVars>>

\* The head of the kline loop with a kline left.
RunNextKline(r) ==
  /\ runs[r].pc = "kline"
  /\ runs[r].k < Len(runs[r].klines)
  /\ runs' = [runs EXCEPT ![r].k = runs[r].k + 1, ![r].j = 1, ![r].pc = "sample"]
  /\ UNCHANGED <<frames, ratesFile, backtestVars, simulatorVars, cliVars>>

\* The sample at hand in call r.
RunPrice(r) == PriceMovement(runs[r].klines[runs[r].k])[runs[r].j]

\* The sample made a resolution: its last event is tagged.
Resolved(before, after) ==
  /\ Len(after.events) > Len(before.events)
  /\ after.events[Len(after.events)].endResult # "NONE"

\* One iteration of the sample loop up to its end or to the await of a
\* resolution.  At the await the event is pushed and the seed assigned,
\* while the state is still the one the event leaves and the ladder data is
\* the old one.
RunSample(r) ==
  /\ runs[r].pc = "sample"
  /\ \E s \in {OnPrice(FrameOf(r), RunPrice(r), runs[r].k, runs[r].config, ratesFile)} :
       IF Resolved(FrameOf(r), s)
         THEN /\ runs' = [runs EXCEPT ![r].pc = "rebuild"]
              /\ frames' = FramesAfter(r,
                   [FrameOf(r) EXCEPT
                      !.events = s.events,
                      !.initialEntryPrice = s.initialEntryPrice,
                      !.state = s.events[Len(s.events)].stateTransitionFrom])
       ELSE IF s.threw
         THEN /\ runs' = [runs EXCEPT ![r].pc = "threw"]
              /\ frames' = FramesAfter(r, s)
       ELSE /\ runs' = [runs EXCEPT ![r] = AfterSample(runs[r])]
            /\ frames' = FramesAfter(r, s)
  /\ UNCHANGED <<ratesFile, backtestVars, simulatorVars, cliVars>>

\* The kline loop is exhausted: return events.
RunFinish(r) ==
  /\ runs[r].pc = "kline"
  /\ runs[r].k = Len(runs[r].klines)
  /\ runs' = [runs EXCEPT ![r].pc = "done", ![r].returned = FrameOf(r).events]
  /\ UNCHANGED <<frames, ratesFile, backtestVars, simulatorVars, cliVars>>

PairNext ==
  \E r \in Runs :
    \/ RunStart(r)
    \/ RunBuild(r)
    \/ RunNextKline(r)
    \/ RunSample(r)
    \/ RunFinish(r)

PairSpec == PairInit /\ [][PairNext]_vars

(***************************************************************************)
(* backtest as a function of its arguments and the stored file: the call   *)
(* run from entry to return with nothing else running.                     *)
(***************************************************************************)
\* The sample loop from sample jj of kline kk on.
RECURSIVE Replay(_, _, _, _, _, _)
Replay(s, config, klines, file, kk, jj) ==
  IF s.threw \/ kk > Len(klines) THEN s
  ELSE IF jj > 4 THEN Replay(s, config, klines, file, kk + 1, 1)
  ELSE
    Let(OnPrice(s, PriceMovement(klines[kk])[jj], kk, config, file), LAMBDA next :
      Replay(next, config, klines, file, kk, jj + 1))

\* The outcome of backtest: [threw, events], events being the value returned.
backtest(config, klines, file) ==
  Let(parseFloat(klines[1].open), LAMBDA seed :
    IF Falsy(seed) THEN [threw |-> FALSE, events |-> <<>>]
    ELSE
      Let(calculatePositions(
            [state |-> 0, events |-> <<>>, initialEntryPrice |-> seed,
             longPositions |-> <<>>, shortPositions |-> <<>>,
             longStopLossPrice |-> Zero, shortStopLossPrice |-> Zero,
             threw |-> FALSE],
            seed, config, file), LAMBDA built :
      Let(Replay(built, config, klines, file, 1, 1), LAMBDA end :
        [threw |-> end.threw, events |-> end.events])))

\* backtest for the arguments of the overlapping calls, computed once (the
\* merge with the empty function makes TLC tabulate it).
AloneTable ==
  [input \in PairConfigs \X PairKlines |-> backtest(input[1], input[2], TieredFile)]
    @@ <<>>

\* The outcome of call r had it run alone.
Alone(r) == AloneTable[<<runs[r].config, runs[r].klines>>]

(***************************************************************************)
(* Properties of overlapping backtest calls                                *)
(***************************************************************************)
Settled(r) == runs[r].pc \in {"done", "threw"}

\* The log holds a resolution: an event tagged PROFIT or LOSS.
HasResolution(log) == \E n \in 1..Len(log) : log[n].endResult # "NONE"

\* C17: two calls of backtest with the same candles, the same ladder
\* parameters and the same bracket table end the same way and return the
\* same sequence of events.
C17_SameInputsSameEvents ==
  (/\ runs[1].config = runs[2].config
   /\ runs[1].klines = runs[2].klines
   /\ Settled(1)
   /\ Settled(2))
    => /\ runs[1].pc = runs[2].pc
       /\ runs[1].returned = runs[2].returned

\* Both calls were given the same arguments and have returned a log of
\* several events, one of them a resolution.
C17_Witness ==
  /\ runs[1].config = runs[2].config
  /\ runs[1].klines = runs[2].klines
  /\ runs[1].pc = "done"
  /\ runs[2].pc = "done"
  /\ Len(runs[1].returned) >= 2
  /\ HasResolution(runs[1].returned)

log1 \preceq log2 ==
  Len(log1) <= Len(log2) /\ SubSeq(log2, 1, Len(log1)) = log1

\* C18: however two calls of backtest interleave at their awaits, the
\* events each has pushed are at every moment the first events of the log it
\* produces when run alone, and the log it returns is that log.
C18_AsWhenAlone ==
  \A r \in Runs :
    /\ frames[r].events \preceq Alone(r).events
    /\ runs[r].pc = "done" => ~Alone(r).threw /\ runs[r].returned = Alone(r).events
    /\ runs[r].pc = "threw" => Alone(r).threw

\* Two calls with different candles are both suspended in the rebuild of a
\* resolution, each with its own events pushed.
C18_Witness ==
  /\ runs[1].klines # runs[2].klines
  /\ runs[1].pc = "rebuild"
  /\ runs[2].pc = "rebuild"
  /\ frames[1].events # frames[2].events
  /\ frames[1].initialEntryPrice # frames[2].initialEntryPrice

(***************************************************************************)
(* One backtest call while fetchMaintenanceMarginRates (of this or of      *)
(* another process started in the same directory) rewrites the stored file *)
(***************************************************************************)
ReloadInit ==
  /\ runs \in [{1} -> {NewRun(config, klines) :
                          config \in PairConfigs, klines \in PairKlines}]
  /\ frames = [c \in {1} |-> NewFrame]
  /\ ratesFile \in RatesFiles
  /\ NoBacktest
  /\ NoSimulatorCall
  /\ NoCli

\* fetchMaintenanceMarginRates: the brackets the exchange serves are written
\* over the stored file.  A failed fetch writes nothing.
fetchMaintenanceMarginRates ==
  /\ \E brackets \in RatesFiles \ {ratesFile} : ratesFile' = brackets
  /\ UNCHANGED <<backtestVars, simulatorVars, pairVars, cliVars>>

ReloadNext == PairNext \/ fetchMaintenanceMarginRates

ReloadSpec == ReloadInit /\ [][ReloadNext]_vars

\* C19: within one call of backtest every read of the stored bracket table,
\* for the first build and for every rebuild, yields the table of the first
\* read, also while the file is being rewritten, and no read is made inside
\* the sample loop.
C19_TableLoadedOnce ==
  \A r \in Runs :
    \A n \in 1..Len(runs[r].reads) :
      /\ runs[r].reads[n].table = runs[r].reads[1].table
      /\ ~runs[r].reads[n].inLoop

(***************************************************************************)
(* libs/libbinance: the two calls of the apply path.  The exchange is the  *)
(* environment: the outcome of each request is an input.  An outcome is    *)
(* [ok |-> TRUE] or an error [ok |-> FALSE, code |-> c], where c is        *)
(* err.response.data.code and NoCode stands for an error that carries no   *)
(* such code (a network failure).                                          *)
(***************************************************************************)
NoCode == 0

Done == [ok |-> TRUE]

Failure(code) == [ok |-> FALSE, code |-> code]

\* A request as it is logged in exchange, with the outcome it had.
Request(request, argument, outcome) ==
  [request |-> request, argument |-> argument, outcome |-> outcome]

\* A catch clause that swallows every error
SwallowsAll(outcome, code) == TRUE

\* The condition under which a catch clause swallows the error: the
\* negation of `err?.response?.data?.code !== code`
AlreadySet(outcome, code) == outcome.code = code

\* prepareTradingEnvironment(symbol, leverage), given the outcomes of the
\* four requests; a request the function does not get to has no outcome.
prepareTradingEnvironment(symbol, leverage, outcomes) ==
  LET positionMode ==
        Request("changePositionMode", "HEDGE_MODE", outcomes[1])
      multiAssetsMode ==
        Request("changeMultiAssetsMode", "SINGLE_ASSET", outcomes[2])
      marginType ==
        Request("changeMarginType", <<symbol, "ISOLATED">>, outcomes[3])
      initialLeverage ==
        Request("changeInitialLeverage", <<symbol, leverage>>, outcomes[4])
  IN
  IF ~outcomes[1].ok /\ ~AlreadySet(outcomes[1], -4059)
    THEN [threw |-> TRUE, requests |-> <<positionMode>>]
  ELSE IF ~outcomes[2].ok /\ ~AlreadySet(outcomes[2], -4171)
    THEN [threw |-> TRUE, requests |-> <<positionMode, multiAssetsMode>>]
  ELSE IF ~outcomes[3].ok /\ ~AlreadySet(outcomes[3], -4046)
    THEN [threw |-> TRUE,
          requests |-> <<positionMode, multiAssetsMode, marginType>>]
  ELSE [threw |-> ~outcomes[4].ok,
        requests |->
          <<positionMode, multiAssetsMode, marginType, initialLeverage>>]

\* A JavaScript value that is an array of items, and one that is not an
\* array (undefined, or an error object).
Array(items) == [array |-> TRUE, items |-> items]

NotAnArray == [array |-> FALSE, items |-> <<>>]

BATCH_SIZE == 5

\* The orderId of a response element that has none.
NoOrderId == 0

\* The answers of the exchange to a batch: every order placed, the last
\* one refused (an element with a code and no orderId), an empty array, an
\* error object in place of the array, and a rejected request.
ResponseKinds == {"placed", "refused", "empty", "object", "rejected"}

Placed(order, n) == [orderId |-> 1000 + n, code |-> NoCode, order |-> order]

Refused(order) == [orderId |-> NoOrderId, code |-> -2022, order |-> order]

\* The response of kind kind to the batch sent from offset i on.
Response(kind, batch, i) ==
  [rejected |-> kind = "rejected",
   data |->
     CASE kind = "placed" ->
            Array([n \in 1..Len(batch) |-> Placed(batch[n], i + n)])
       [] kind = "refused" ->
            Array([n \in 1..Len(batch) |->
                     IF n = Len(batch) THEN Refused(batch[n])
                     ELSE Placed(batch[n], i + n)])
       [] kind = "empty" -> Array(<<>>)
       [] OTHER -> NotAnArray]

\* A check of the response that looks at the first element only
FirstHasOrderId(data) ==
  data.array /\ Len(data.items) > 0 /\ data.items[1].orderId # NoOrderId

\* Array.isArray(res?.data) && res?.data?.length > 0 &&
\* res?.data?.every((o) => o.orderId)
EveryHasOrderId(data) ==
  /\ data.array
  /\ Len(data.items) > 0
  /\ \A n \in 1..Len(data.items) : data.items[n].orderId # NoOrderId

\* The loop of placeMultipleOrders from offset i on.  kinds[b] is the kind
\* of answer the exchange gives to batch b.
RECURSIVE PlaceFrom(_, _, _, _, _)
PlaceFrom(items, kinds, i, allResults, requests) ==
  IF i >= Len(items)
    THEN [threw |-> FALSE, returned |-> allResults, requests |-> requests]
  ELSE
    LET batch == SubSeq(items, i + 1, Min(i + BATCH_SIZE, Len(items)))
        res == Response(kinds[(i \div BATCH_SIZE) + 1], batch, i)
        sent == Append(requests, Request("placeMultipleOrders", batch, res))
    IN
    IF res.rejected
      THEN [threw |-> TRUE, returned |-> <<>>, requests |-> sent]
    ELSE IF EveryHasOrderId(res.data)
      THEN PlaceFrom(items, kinds, i + BATCH_SIZE,
                     allResults \o res.data.items, sent)
    ELSE [threw |-> TRUE, returned |-> <<>>, requests |-> sent]

\* placeMultipleOrders(orderParamsList): what it throws or returns and the
\* requests it sends.
placeMultipleOrders(orderParamsList, kinds) ==
  IF ~orderParamsList.array \/ Len(orderParamsList.items) = 0
    THEN [threw |-> TRUE, returned |-> <<>>, requests |-> <<>>]
  ELSE PlaceFrom(orderParamsList.items, kinds, 0, <<>>, <<>>)

(***************************************************************************)
(* The command-line program: main with its two questions.  A line typed by *)
(* the user is a sequence of characters.  The prices and quantities of the *)
(* orders are left out; an order is known by the index of its rung.        *)
(***************************************************************************)
DigitValue(c) ==
  CASE c = "0" -> 0 [] c = "1" -> 1 [] c = "2" -> 2 [] c = "3" -> 3
    [] c = "4" -> 4 [] c = "5" -> 5 [] c = "6" -> 6 [] c = "7" -> 7
    [] c = "8" -> 8 [] c = "9" -> 9 [] OTHER -> -1

\* The value of the longest run of decimal digits of str from position i on,
\* continuing the value acc; NaN when digits is FALSE and no digit is found.
RECURSIVE ParseDigits(_, _, _, _)
ParseDigits(str, i, acc, digits) ==
  IF i <= Len(str) /\ DigitValue(str[i]) >= 0
    THEN ParseDigits(str, i + 1, 10 * acc + DigitValue(str[i]), TRUE)
  ELSE IF digits THEN Num(acc) ELSE NaN

\* The position of the first character of str from i on that is not a blank.
RECURSIVE SkipBlanks(_, _)
SkipBlanks(str, i) ==
  IF i <= Len(str) /\ str[i] = " " THEN SkipBlanks(str, i + 1) ELSE i

\* parseInt(str, 10): leading blanks, an optional sign, then decimal digits
\* up to the first other character; NaN without a digit.
parseInt(str) ==
  LET i == SkipBlanks(str, 1) IN
  IF i <= Len(str) /\ str[i] = "-" THEN Neg(ParseDigits(str, i + 1, 0, FALSE))
  ELSE IF i <= Len(str) /\ str[i] = "+" THEN ParseDigits(str, i + 1, 0, FALSE)
  ELSE ParseDigits(str, i, 0, FALSE)

\* The answer to the first question: input ? parseInt(input, 10) : 5
OrderCountOf(input) == IF input = <<>> THEN Num(5) ELSE parseInt(input)

\* !Number.isFinite(orderCount) || orderCount <= 0
InvalidOrderCount(orderCount) == ~IsFinite(orderCount) \/ Le(orderCount, Zero)

\* A confirmation that accepts every answer beginning with y
ConfirmsByPrefix(answer) == answer # <<>> /\ answer[1] = "y"

\* The negation of `answer !== "yes"`
Confirms(answer) == answer = <<"y", "e", "s">>

\* mergeTwoArraysAlternatively(arr1, arr2)
RECURSIVE MergeFrom(_, _, _)
MergeFrom(arr1, arr2, i) ==
  IF i > Max(Len(arr1), Len(arr2)) THEN <<>>
  ELSE (IF i <= Len(arr1) THEN <<arr1[i]>> ELSE <<>>)
         \o (IF i <= Len(arr2) THEN <<arr2[i]>> ELSE <<>>)
         \o MergeFrom(arr1, arr2, i + 1)

\* A merge that puts the whole of arr1 before arr2
concatTwoArrays(arr1, arr2) == arr1 \o arr2

mergeTwoArraysAlternatively(arr1, arr2) == MergeFrom(arr1, arr2, 1)

\* The index field of the rows of one side: i + 1 for SHORT, -i - 1 for LONG.
Indexed(rungs, mode) ==
  [i \in 1..Len(rungs) |-> IF mode = "SHORT" THEN i ELSE -i]

\* The NewOrderParams of a row: SELL/SHORT for a positive index, BUY/LONG
\* for a negative one.
OrderParams(index) ==
  [index |-> index,
   side |-> IF index > 0 THEN "SELL" ELSE "BUY",
   positionSide |-> IF index > 0 THEN "SHORT" ELSE "LONG"]

\* The command lines tried: with and without --help, the trading pair, the
\* initial margin and --apply, with a leverage of 0, 2, 3, 5 or 10; the
\* entry price is 10 and the deviation 10.  With the tiered file the
\* leverage 2 gives five long rungs and six short ones; with the capped file
\* the leverage 3 gives two long rungs and one short one and the leverage 10
\* no rung at all.
CliOptions ==
  [help : BOOLEAN, tradepair : {"", "BTCUSDT"}, initmargin : {0, 10},
   leverage : {0, 2, 3, 5, 10}, apply : BOOLEAN]

\* The lines typed at the first question and at the second.
CountInputs ==
  {<<>>, <<"3">>, <<"0">>, <<"-", "2">>, <<"a", "b", "c">>,
   <<"3", "a", "b", "c">>, <<"2", ".", "7">>, <<" ", "1">>, <<"9">>}

Answers ==
  {<<"y", "e", "s">>, <<"y">>, <<"Y", "E", "S">>, <<"y", "e", "s", " ">>,
   <<>>, <<"n", "o">>}

\* The config main hands to the simulator for a side.
CliConfig(options, mode) ==
  SideConfig([tradingPair |-> options.tradepair,
              leverage |-> Num(options.leverage),
              priceDeviationPercent |-> Num(10),
              priceDeviationMultiplier |-> Num(1),
              orderSizeMultiplier |-> Num(1),
              initialMargin |-> Num(options.initmargin)],
             Num(10), mode)

CliInit ==
  /\ cli \in {[pc |-> "main", options |-> options, output |-> <<>>,
               shortResults |-> <<>>, longResults |-> <<>>,
               orderCount |-> NaN, answer |-> <<>>, placed |-> <<>>] :
                options \in CliOptions}
  /\ ratesFile \in {TieredFile, CappedFile}
  /\ exchange = <<>>
  /\ placing = <<>>
  /\ NoBacktest
  /\ NoSimulatorCall
  /\ NoPair

\* main up to the first question or, without --apply, to its end.  online
\* tells whether the exchange answered getExchangeInfo with the symbol.
Main ==
  /\ cli.pc = "main"
  /\ \E online \in BOOLEAN :
     \E short \in {calculateLiquidationPrices(CliConfig(cli.options, "SHORT"), ratesFile)} :
     \E long \in {calculateLiquidationPrices(CliConfig(cli.options, "LONG"), ratesFile)} :
       cli' =
         IF cli.options.help \/ cli.options.tradepair = "" \/ cli.options.initmargin = 0
           THEN [cli EXCEPT !.pc = "exited", !.output = <<"help">>]
         ELSE IF cli.options.leverage < 1 \/ cli.options.leverage > 125
           THEN [cli EXCEPT !.pc = "returned", !.output = <<"leverage error">>]
         ELSE IF ~online
           THEN [cli EXCEPT !.pc = "returned", !.output = <<"exchange error">>]
         ELSE IF short.threw \/ long.threw
           THEN [cli EXCEPT !.pc = "rejected"]
         ELSE IF ~cli.options.apply
           THEN [cli EXCEPT !.pc = "returned", !.output = <<"table">>,
                            !.shortResults = Indexed(short.rungs, "SHORT"),
                            !.longResults = Indexed(long.rungs, "LONG")]
         ELSE [cli EXCEPT !.pc = "count", !.output = <<"table", "how many">>,
                          !.shortResults = Indexed(short.rungs, "SHORT"),
                          !.longResults = Indexed(long.rungs, "LONG")]
  /\ UNCHANGED <<ratesFile, backtestVars, simulatorVars, pairVars, exchange,
               placing>>

\* The first question is answered: the count is parsed and checked, the
\* orders of both sides are selected and previewed and the second question
\* is asked.
AnswerCount ==
  /\ cli.pc = "count"
  /\ \E input \in CountInputs :
     \E orderCount \in {OrderCountOf(input)} :
       cli' =
         IF InvalidOrderCount(orderCount)
           THEN [cli EXCEPT !.pc = "returned", !.orderCount = orderCount,
                            !.output = cli.output \o <<"invalid count">>]
           ELSE [cli EXCEPT !.pc = "confirm", !.orderCount = orderCount,
                            !.shortResults = Slice(cli.shortResults, orderCount[1]),
                            !.longResults = Slice(cli.longResults, orderCount[1]),
                            !.output = cli.output \o <<"preview", "are you sure">>]
  /\ UNCHANGED <<ratesFile, backtestVars, simulatorVars, pairVars, exchange,
               placing>>

\* The outcomes tried for a request of prepareTradingEnvironment: success,
\* each of the three already-set codes, another code and no code at all.
Outcomes ==
  {Done} \cup {Failure(code) : code \in {-4059, -4171, -4046, -1000, NoCode}}

\* The number of batches a list of orders is sent in.
Batches(items) == (Len(items) + BATCH_SIZE - 1) \div BATCH_SIZE

\* orderParamsList: the selected rows of both sides merged, as order params.
OrderParamsList(shortResults, longResults) ==
  LET merged == mergeTwoArraysAlternatively(shortResults, longResults)
  IN [n \in 1..Len(merged) |-> OrderParams(merged[n])]

\* The try block of main: prepareTradingEnvironment, then, unless it threw,
\* placeMultipleOrders; what was sent to the exchange, the lists handed to
\* placeMultipleOrders and whether the catch clause was entered.
Apply(symbol, leverage, orderParamsList, outcomes, kinds) ==
  LET prepared == prepareTradingEnvironment(symbol, leverage, outcomes)
      orders == placeMultipleOrders(Array(orderParamsList), kinds)
  IN
  IF prepared.threw
    THEN [caught |-> TRUE, requests |-> prepared.requests, placed |-> <<>>]
    ELSE [caught |-> orders.threw,
          requests |-> prepared.requests \o orders.requests,
          placed |-> <<orderParamsList>>]

\* The second question is answered.  Any answer but yes cancels; after yes
\* prepareTradingEnvironment is awaited and, unless it threw, the orders are
\* handed to placeMultipleOrders.  placed lists the calls of it.
AnswerConfirm ==
  /\ cli.pc = "confirm"
  /\ \E answer \in Answers :
       IF ~Confirms(answer)
         THEN /\ cli' = [cli EXCEPT !.pc = "returned", !.answer = answer,
                                    !.output = cli.output \o <<"cancelled">>]
              /\ exchange' = exchange
         ELSE
           \E orderParamsList \in
                {OrderParamsList(cli.shortResults, cli.longResults)} :
           \E outcomes \in [1..4 -> Outcomes] :
           \E kinds \in [1..Batches(orderParamsList) -> ResponseKinds] :
           \E applied \in {Apply(cli.options.tradepair, cli.options.leverage,
                                 orderParamsList, outcomes, kinds)} :
             /\ cli' = [cli EXCEPT
                          !.pc = "returned", !.answer = answer,
                          !.placed = cli.placed \o applied.placed,
                          !.output =
                            cli.output \o
                              <<IF applied.caught THEN "error placing orders"
                                ELSE "orders placed">>]
             /\ exchange' = exchange \o applied.requests
  /\ UNCHANGED <<ratesFile, backtestVars, simulatorVars, pairVars, placing>>

CliNext == Main \/ AnswerCount \/ AnswerConfirm

CliSpec == CliInit /\ [][CliNext]_vars

\* C20: placeMultipleOrders is called only when --apply was given, the order
\* count entered is a finite number greater than 0 and the answer to the
\* second question is exactly yes; on every other path no order is sent, and
\* the preview is printed before the second question is asked.
C20_OrdersOnlyOnYes ==
  /\ cli.placed # <<>> =>
       /\ cli.options.apply
       /\ IsFinite(cli.orderCount)
       /\ Gt(cli.orderCount, Zero)
       /\ cli.answer = <<"y", "e", "s">>
  /\ \A n \in 1..Len(cli.output) :
       cli.output[n] = "are you sure" =>
         \E m \in 1..(n - 1) : cli.output[m] = "preview"

\* Orders of both sides were placed after a count typed as 3abc.
C20_Witness ==
  /\ cli.placed # <<>>
  /\ cli.orderCount = Num(3)
  /\ Len(cli.placed[1]) >= 4
  /\ \E n \in 1..Len(cli.placed[1]) : cli.placed[1][n].side = "SELL"
  /\ \E n \in 1..Len(cli.placed[1]) : cli.placed[1][n].side = "BUY"

C22_Alternating ==
  cli.placed # <<>> =>
    LET list == cli.placed[1]
        short == cli.shortResults
        long == cli.longResults
        both == Min(Len(short), Len(long))
    IN
    /\ \A i \in 1..Len(short) : short[i] = i
    /\ \A i \in 1..Len(long) : long[i] = -i
    /\ Len(list) = Len(short) + Len(long)
    /\ \A i \in 1..both :
         list[2 * i - 1].index = short[i] /\ list[2 * i].index = long[i]
    /\ \A i \in (both + 1)..Len(short) : list[both + i].index = short[i]
    /\ \A i \in (both + 1)..Len(long) : list[both + i].index = long[i]
    /\ \A n \in 1..Len(list) :
         list[n].positionSide = IF list[n].index > 0 THEN "SHORT" ELSE "LONG"
    /\ \A b \in 1..(Len(exchange) - 4) :
         \A n \in 1..Len(exchange[4 + b].argument) :
           exchange[4 + b].argument[n] = list[BATCH_SIZE * (b - 1) + n]

\* Six short rungs and five long ones were selected: the sixth short rung
\* comes last, after the fifth long one, and went out in the third batch.
C22_Witness ==
  /\ cli.placed # <<>>
  /\ Len(cli.shortResults) = 6
  /\ Len(cli.longResults) = 5
  /\ cli.placed[1][10].index = -5
  /\ cli.placed[1][11].index = 6
  /\ Len(exchange) = 7
  /\ exchange[7].argument = <<OrderParams(6)>>

(***************************************************************************)
(* Further properties of backtest and of the ladder it runs against        *)
(***************************************************************************)
\* n raised (sign 1) or lowered (sign -1) by percent.
ByPercent(n, percent, sign) ==
  Mul(n, Add(Num(1), Div(Mul(Num(sign), percent), Num(100))))

\* positions are the first kept rungs of rungs, each with its take-profit
\* price: the average entry price moved by takeProfitPercent.
KeptWithTakeProfit(positions, rungs, kept, takeProfitPercent, sign) ==
  /\ Len(positions) = Min(kept, Len(rungs))
  /\ \A i \in 1..Len(positions) :
       /\ positions[i].entryPrice = rungs[i].entryPrice
       /\ positions[i].avgEntryPrice = rungs[i].avgEntryPrice
       /\ positions[i].liquidationPrice = rungs[i].liquidationPrice
       /\ positions[i].takeProfitPrice =
            ByPercent(rungs[i].avgEntryPrice, takeProfitPercent, sign)

\* C27: the ladder backtest runs against holds, for each side, the first
\* maxOrdersPerSide rungs the simulator gives for that direction from the
\* seed price, the same seed for both sides; the take-profit price of a long
\* rung is its average entry price raised by takeProfitPercent and that of a
\* short rung its average entry price lowered by it; the long stop-loss is
\* the average entry price of the last kept long rung lowered by
\* stopLossPercent and the short stop-loss that of the last kept short rung
\* raised by it.
C27_BothSidesBuilt ==
  pc \in {"kline", "sample"} =>
    Let(calculateLiquidationPrices(
          SideConfig(backtestConfig, initialEntryPrice, "LONG"), ratesFile),
        LAMBDA long :
    Let(calculateLiquidationPrices(
          SideConfig(backtestConfig, initialEntryPrice, "SHORT"), ratesFile),
        LAMBDA short :
      /\ KeptWithTakeProfit(longPositions, long.rungs,
                            backtestConfig.maxOrdersPerSide,
                            backtestConfig.takeProfitPercent, 1)
      /\ KeptWithTakeProfit(shortPositions, short.rungs,
                            backtestConfig.maxOrdersPerSide,
                            backtestConfig.takeProfitPercent, -1)
      /\ Len(longPositions) > 0 =>
           longStopLossPrice =
             ByPercent(longPositions[Len(longPositions)].avgEntryPrice,
                       backtestConfig.stopLossPercent, -1)
      /\ Len(shortPositions) > 0 =>
           shortStopLossPrice =
             ByPercent(shortPositions[Len(shortPositions)].avgEntryPrice,
                       backtestConfig.stopLossPercent, 1)))

\* A ladder rebuilt from the seed 8 after a resolution: the simulator gives
\* four rungs a side and three are kept.
C27_Witness ==
  /\ pc \in {"kline", "sample"}
  /\ events # <<>>
  /\ initialEntryPrice = Num(8)
  /\ backtestConfig.maxOrdersPerSide = 3
  /\ Len(longPositions) = 3
  /\ Len(shortPositions) = 3
  /\ longPositions[3].entryPrice = Frac(32, 5)
  /\ Lt(longStopLossPrice, longPositions[3].avgEntryPrice)

\* C28: the event log is a chain.  The first event leaves state 0, every
\* later event leaves the state the event before it entered, no event
\* enters the state it leaves, an event is tagged PROFIT or LOSS exactly when
\* it enters state 0, and the times of the events do not decrease (the time
\* of an event is that of its candle, the candles being ordered by time).
\* The log backtest returns is the log at the end of the kline loop.
C28_EventChain ==
  /\ \A n \in 1..Len(events) :
       /\ events[n].stateTransitionFrom =
            IF n = 1 THEN 0 ELSE events[n - 1].stateTransitionTo
       /\ events[n].stateTransitionFrom # events[n].stateTransitionTo
       /\ events[n].endResult \in {"PROFIT", "LOSS"}
            <=> events[n].stateTransitionTo = 0
       /\ n > 1 => events[n - 1].time <= events[n].time
  /\ pc = "done" => returned = events

\* A returned log of three events or more over two candles, with a
\* resolution in the middle and a new entry from state 0 after it.
C28_Witness ==
  /\ pc = "done"
  /\ Len(returned) >= 3
  /\ returned[1].time < returned[Len(returned)].time
  /\ \E n \in 2..(Len(returned) - 1) :
       /\ returned[n].endResult \in {"PROFIT", "LOSS"}
       /\ returned[n + 1].stateTransitionFrom = 0

\* The level the event e was triggered at, from the ladder in use before the
\* step, as computed and before any rounding: the entry price of the rung an
\* entry event arrives at, else the level of the resolution.
LevelComparedFor(e) ==
  IF e.endResult # "NONE" THEN TriggerLevel(e)
  ELSE IF e.stateTransitionTo < 0
    THEN Rung(longPositions, Abs(e.stateTransitionTo) - 1).entryPrice
    ELSE Rung(shortPositions, Abs(e.stateTransitionTo) - 1).entryPrice

\* Long rung entries, the long stop-loss and the short take-profit are
\* tested with price <= level; the others with price >= level.
TestedFromAbove(e) ==
  IF e.endResult = "NONE" THEN e.stateTransitionTo < 0
  ELSE ~ReachedFromBelow(e)

\* C29: every event of a sample was triggered at a level rounded to
\* pricePrecision away from the sampled side: a level tested with
\* price <= level is rounded down, one tested with price >= level is rounded
\* up, so the sampled price has reached or passed both the rounded and the
\* unrounded level; after a PROFIT or LOSS event the seed of the rebuilt
\* ladder is the rounded level.
C29_HarderToReach ==
  [][\A n \in 1..Len(NewEvents) :
       LET e == NewEvents[n]
           level == LevelComparedFor(e)
           rounded == IF TestedFromAbove(e)
                        THEN GridFloor(level, backtestConfig.pricePrecision)
                        ELSE GridCeil(level, backtestConfig.pricePrecision)
       IN /\ IF TestedFromAbove(e)
               THEN Le(SampledPrice, rounded) /\ Le(rounded, level)
                    /\ Le(SampledPrice, level)
               ELSE Ge(SampledPrice, rounded) /\ Ge(rounded, level)
                    /\ Ge(SampledPrice, level)
          /\ e.endResult # "NONE" => initialEntryPrice' = rounded]_vars

\* Within the first kline a long position at full depth was stopped out:
\* the stop-loss price of the ladder built from the open of the kline is
\* off the price grid, a sample of the kline is at or below it, and the seed
\* is that stop-loss price rounded down, strictly below it.
C29_Witness ==
  /\ pc = "sample"
  /\ k = 1
  /\ events # <<>>
  /\ \A n \in 1..(Len(events) - 1) : events[n].endResult = "NONE"
  /\ Last(events).endResult = "LOSS"
  /\ Last(events).stateTransitionFrom < 0
  /\ \E built \in {BothSides(backtestConfig, parseFloat(kline.open), ratesFile)} :
       /\ Lt(initialEntryPrice, built.longStopLossPrice)
       /\ initialEntryPrice =
            GridFloor(built.longStopLossPrice, backtestConfig.pricePrecision)
       /\ \E i \in 1..(j - 1) : Le(priceMovement[i], built.longStopLossPrice)

(***************************************************************************)
(* libbinance: placeMultipleOrders called directly, one await at a time.   *)
(***************************************************************************)
\* The longest list tried: two full batches and a batch of two.
MaxListLength == 12

\* The arguments tried: lists of 0 to MaxListLength orders in which short
\* and long rungs alternate, and a value that is not an array.
OrderLists ==
  {Array([n \in 1..len |-> OrderParams(IF n % 2 = 1 THEN (n + 1) \div 2
                                       ELSE 0 - (n \div 2))]) :
     len \in 0..MaxListLength} \cup {NotAnArray}

OrdersInit ==
  /\ placing \in {[pc |-> "check", orderParamsList |-> list, i |-> 0,
                   allResults |-> <<>>, returned |-> <<>>] : list \in OrderLists}
  /\ exchange = <<>>
  /\ cli = <<>>
  /\ ratesFile = TieredFile
  /\ NoBacktest
  /\ NoSimulatorCall
  /\ NoPair

\* if (!Array.isArray(orderParamsList) || orderParamsList.length === 0) throw
CheckList ==
  /\ placing # <<>>
  /\ placing.pc = "check"
  /\ placing' =
       [placing EXCEPT !.pc =
          IF ~placing.orderParamsList.array \/ Len(placing.orderParamsList.items) = 0
            THEN "threw" ELSE "loop"]
  /\ UNCHANGED <<ratesFile, backtestVars, simulatorVars, pairVars, cli, exchange>>

\* One iteration of the batch loop: the slice is sent, the answer awaited
\* and checked.
SubmitBatch ==
  /\ placing # <<>>
  /\ placing.pc = "loop"
  /\ placing.i < Len(placing.orderParamsList.items)
  /\ \E kind \in ResponseKinds :
     \E batch \in {SubSeq(placing.orderParamsList.items, placing.i + 1,
                          Min(placing.i + BATCH_SIZE,
                              Len(placing.orderParamsList.items)))} :
     \E res \in {Response(kind, batch, placing.i)} :
       /\ exchange' = Append(exchange, Request("placeMultipleOrders", batch, res))
       /\ placing' =
            IF ~res.rejected /\ EveryHasOrderId(res.data)
              THEN [placing EXCEPT !.allResults = @ \o res.data.items,
                                   !.i = @ + BATCH_SIZE]
              ELSE [placing EXCEPT !.pc = "threw"]
  /\ UNCHANGED <<ratesFile, backtestVars, simulatorVars, pairVars, cli>>

\* The loop is exhausted: return allResults.
ReturnResults ==
  /\ placing # <<>>
  /\ placing.pc = "loop"
  /\ placing.i >= Len(placing.orderParamsList.items)
  /\ placing' = [placing EXCEPT !.pc = "returned", !.returned = placing.allResults]
  /\ UNCHANGED <<ratesFile, backtestVars, simulatorVars, pairVars, cli, exchange>>

OrdersNext == CheckList \/ SubmitBatch \/ ReturnResults

OrdersSpec == OrdersInit /\ [][OrdersNext]_vars

\* The answer to a request lets the call go on: a non-empty array in which
\* every element carries an orderId.
GoodAnswer(outcome) ==
  /\ ~outcome.rejected
  /\ outcome.data.array
  /\ outcome.data.items # <<>>
  /\ \A n \in 1..Len(outcome.data.items) :
       outcome.data.items[n].orderId # NoOrderId

\* The results of the first b requests, one after the other.
RECURSIVE ResultsUpTo(_)
ResultsUpTo(b) ==
  IF b = 0 THEN <<>> ELSE ResultsUpTo(b - 1) \o exchange[b].outcome.data.items

\* C30: an empty list or a value that is not an array makes the call throw
\* with no request sent.  Otherwise request b carries orders 5(b-1)+1 to 5b
\* of the list (fewer at the end), in input order, and is sent only after
\* every earlier request got a good answer; an answer that is not a non-empty
\* array of elements with an orderId makes the call throw, with nothing
\* returned, no further request and no request other than placing orders; a
\* call that returns has sent every batch and returns the answers of all
\* batches concatenated in batch order.
C30_Batches ==
  placing # <<>> =>
    LET items == placing.orderParamsList.items
        rejectedAtOnce == ~placing.orderParamsList.array \/ Len(items) = 0
    IN
    /\ rejectedAtOnce =>
         /\ exchange = <<>>
         /\ placing.pc \in {"check", "threw"}
    /\ \A b \in 1..Len(exchange) :
         /\ exchange[b].request = "placeMultipleOrders"
         /\ BATCH_SIZE * (b - 1) < Len(items)
         /\ Len(exchange[b].argument) \in 1..BATCH_SIZE
         /\ Len(exchange[b].argument) =
              IF BATCH_SIZE * b <= Len(items) THEN BATCH_SIZE
              ELSE Len(items) - BATCH_SIZE * (b - 1)
         /\ \A n \in 1..Len(exchange[b].argument) :
              exchange[b].argument[n] = items[BATCH_SIZE * (b - 1) + n]
         /\ b < Len(exchange) => GoodAnswer(exchange[b].outcome)
    /\ (exchange # <<>> /\ ~GoodAnswer(Last(exchange).outcome)) =>
         /\ placing.pc = "threw"
         /\ placing.returned = <<>>
    /\ (placing.pc = "threw" /\ ~rejectedAtOnce) =>
         /\ exchange # <<>>
         /\ ~GoodAnswer(Last(exchange).outcome)
    /\ placing.pc = "returned" =>
         /\ BATCH_SIZE * Len(exchange) >= Len(items)
         /\ GoodAnswer(Last(exchange).outcome)
         /\ placing.returned = ResultsUpTo(Len(exchange))

\* A list of eleven orders: the first batch was placed, the second came back
\* with an element that has no orderId, and the call threw with the third
\* batch never sent and nothing returned.
C30_Witness ==
  /\ placing # <<>>
  /\ placing.pc = "threw"
  /\ Len(placing.orderParamsList.items) = 2 * BATCH_SIZE + 1
  /\ Len(exchange) = 2
  /\ GoodAnswer(exchange[1].outcome)
  /\ exchange[2].outcome.data.array
  /\ Len(exchange[2].outcome.data.items) = BATCH_SIZE
  /\ exchange[2].outcome.data.items[BATCH_SIZE].orderId = NoOrderId
  /\ placing.returned = <<>>

====
